---------------------------- MODULE Spec2Model ----------------------------
(***************************************************************************)
(* A model of the Snapcast client of RobMor/lights.                        *)
(*                                                                         *)
(*   CodecSpec  - the wire codec of protocol.rs (SnapCodec::encode and     *)
(*                SnapCodec::decode) between a sender and the decoder's    *)
(*                byte buffer.                                             *)
(*   Spec       - one session of SnapClient (snap/client.rs): next(),      *)
(*                process_message() and the delay queue.                   *)
(*   StreamSpec - SnapClient::connect and SnapStream::send (protocol.rs):  *)
(*                the handshake and the message ids.                       *)
(*   MusicSpec  - the music task (run and mainloop of music/mod.rs), the   *)
(*                MusicController it feeds, and the display loop polling   *)
(*                the controllers.                                         *)
(*   AccessSpec - the message-passing controllers (run of blank.rs and     *)
(*                mainloop of music.rs) and the arbiter that lends them    *)
(*                the sender of the light channel.                         *)
(*   DiscoverSpec - SnapClient::discover: the scan of the mDNS responses  *)
(*                and the choice of the address to connect to.             *)
(*   DownmixSpec - the average of the channels of one decoded block, with *)
(*                the 32-bit sums of the code.                             *)
(*   LightsSpec   - the serial sink of lights.rs: the frame written to    *)
(*                the port for each colour array received.                 *)
(*   MailboxSpec  - the Mutex<Option<frame>> between mainloop and the     *)
(*                controller, with the steps of its lock.                  *)
(*   SessionSpec  - one session of SnapClient, connect and the calls of   *)
(*                next, with what the client sends; it is fair.            *)
(*   BufferSpec   - process_frame's push of frames onto the sample buffer.*)
(*   BandSpec     - val, velocity and clamped_val of one band over the    *)
(*                frames.                                                  *)
(*                                                                         *)
(* Durations of the codec are time::Duration values, a pair of whole       *)
(* seconds and nanoseconds of the same sign.  Durations of the client are  *)
(* whole milliseconds, the resolution of the timer behind the delay queue. *)
(***************************************************************************)
EXTENDS Integers, Sequences, FiniteSets, TLC

VARIABLES
    \* ---- codec (protocol.rs) ----
    wire,       \* bytes written by the sender, not yet read into the decoder's buffer
    src,        \* the decoder's buffer (the BytesMut handed to decode)
    pending,    \* the frames whose bytes are in wire or src, oldest first
    pre,        \* the buffer as it was when the last decode call started
    res,        \* what the last decode call returned
    codecPc,    \* "open" | "decoded" (a decode call has just returned) | "failed"
    \* ---- client (snap/client.rs) ----
    now,        \* instant.elapsed(), in ms
    streamOpen, \* the TCP stream has not reached EOF
    queue,      \* the DelayQueue: a set of entries [id, data, deadline]
    nextKey,    \* the number of entries inserted so far
    time_diff,  \* SnapClient::time_diff, in ms
    delay,      \* SnapClient::delay, in ms
    header,     \* SnapClient::header: NoHeader or [sample_rate |-> ..]
    pc,         \* "idle" (the caller holds the client) | "next" (inside next()) | "done"
    ret,        \* what the last next() call returned
    last,       \* what the last step of the client did (for the claims)
    delivered,  \* the entries next() has returned, in order
    \* ---- stream (SnapStream, SnapClient::connect) ----
    connPc,     \* "start" | "tcp" | "hello" | "ready" | "failed" | "panicked"
    current_id, \* SnapStream::current_id
    sentCount,  \* the number of messages handed to the socket so far
    lastSent,   \* the last of them
    hasRead,    \* SnapStream::next has been called
    \* ---- music task (music/mod.rs: run, mainloop) ----
    runPc,      \* "connect" | "mainloop" | "sleep" | "done"
    retries,    \* run's local `retries`
    runRet,     \* what run returned: "none" (it has not) | "Ok" | "Err"
    failures,   \* the number of failed connection attempts in a row (for the claims)
    lastRun,    \* what the last step of the music task did (for the claims)
    \* ---- MusicController and the display loop ----
    controllers,            \* the controllers in declared priority order
    frame,                  \* MusicController::frame, the mailbox
    ticks_since_new_frame,  \* MusicController::ticks_since_new_frame
    current_color,          \* MusicController::current_color
    displayPc,              \* "running" | "panicked"
    sinceFrame,             \* the number of ticks of the music controller since the
                            \* one that last consumed a frame, -1 before the first
    lastTick,               \* what the last tick of the display loop did
    buf,                    \* MusicController.buf, the most recent samples first
    spectrum_state,         \* MusicController.spectrum_state: val and velocity of each band
    sleepTicks,             \* the ticks of the display loop since run went to sleep
    \* ---- message-passing controllers (controller/music.rs, controller/blank.rs) ----
    inbox,      \* each controller's rx: the InMessages sent to it, oldest first
    outbox,     \* the controllers' tx: the (Token, OutMessage) pairs, oldest first
    sender,     \* each controller's local `sender` is Some
    has_requested_access,   \* mainloop's local of that name
    mainPc,     \* the music task is in "mainloop" or "away" (run: connecting, asleep)
    arbSender,  \* the arbiter has the light-channel sender
    owner,      \* the controller the arbiter has granted access to, or "none"
    requests,   \* the tokens whose RequestAccess the arbiter has received
    revoking,   \* the arbiter has sent RevokeAccess to the owner
    granted,    \* each controller's last InMessage was GrantAccess (for the claims)
    lastWrite,  \* the last frame written to the light channel (for the claims)
    awaitingAnswer,  \* music has sent RequestAccess and received no InMessage since (for the claims)
    \* ---- discovery (SnapClient::discover) ----
    discPc,  \* "listening" | "connecting" | "done"
    examined,  \* the number of responses the loop has examined
    lastItem,  \* what the listener yielded last: "none" | "response" | "None" | "Err"
    lastResponse,  \* the records of the response examined last
    target,  \* the address and port handed to connect
    connects,  \* the number of calls of SnapClient::connect
    discRet, \* what discover returned, "none" while it has not
    \* ---- the downmix of one decoded block, with 32-bit sums ----
    dmBlock,  \* the decoded block: [channels, buffer]
    dmOut, \* the outcome: [r, data], r one of none, Ok, Panic
    \* ---- the serial sink of lights.rs ----
    sinkPc,  \* receiving, panicked, ended
    ledBuffer,  \* `buffer`, the bytes of the frame
    lastColor,  \* the colour array received last
    sinkReceived,  \* how many colour arrays were received
    writes,  \* how many times port.write was called
    written, \* the bytes handed to port.write last
    \* ---- the mailbox between mainloop and the controller, with its lock ----
    slot,  \* the Option in the Mutex: [some, id]
    lock,  \* the Mutex: free, writer, reader
    writerPc,  \* mainloop: next, lock, replace
    outFrame,  \* the frame mainloop got from client.next()
    nextFrame,  \* the number of the next frame of the client
    published,  \* the frame put into the slot last, 0 if none
    readerPc,  \* the controller: idle, is_some, take
    readerSaw,  \* the result of has_new_frame
    takes, \* the frames get_new_frame returned
    \* ---- one session of SnapClient: what it sends and what it receives ----
    sessPc,  \* connect, hello, time, next, done
    sessOpen,  \* the TCP stream is open
    hellosSent,  \* how many Hello messages the client has sent
    timesSent,  \* how many Time messages the client has sent
    recent,  \* the tags of the last messages next() processed
    queued, \* how many frames wait in the delay queue
    \* ---- the sample buffer of process_frame on its own ----
    wbuf,  \* `self.buf`, the working buffer
    arrived,  \* every sample process_frame was given, in the order of arrival
    lastPushed,  \* the frame process_frame was given last
    pushes,  \* how many frames process_frame was given
    bufPc, \* running, panicked
    \* ---- one band of the spectrum: SpectrumState ----
    bandVal,  \* SpectrumState.val
    bandVelocity,  \* SpectrumState.velocity
    bandClamped,  \* SpectrumState.clamped_val
    lastInput,  \* the band's value of the last frame, -1 before any
    bandPc  \* exact, or inexact once a square root is no integer

codecVars  == <<wire, src, pending, pre, res, codecPc>>
clientVars == <<now, streamOpen, queue, nextKey, time_diff, delay, header, pc, ret, last, delivered>>
streamVars == <<connPc, current_id, sentCount, lastSent, hasRead>>
runVars    == <<runPc, retries, runRet, failures, lastRun>>
displayVars == <<controllers, frame, ticks_since_new_frame, current_color, displayPc,
                 sinceFrame, lastTick, buf, spectrum_state>>
musicVars  == <<runVars, displayVars, sleepTicks>>
accessVars == <<inbox, outbox, sender, has_requested_access, mainPc, arbSender,
                owner, requests, revoking, granted, lastWrite, awaitingAnswer>>
discoverVars == <<discPc, examined, lastItem, lastResponse, target, connects, discRet>>
downmixVars == <<dmBlock, dmOut>>
lightsVars == <<sinkPc, ledBuffer, lastColor, sinkReceived, writes, written>>
mailboxVars == <<slot, lock, writerPc, outFrame, nextFrame, published, readerPc, readerSaw, takes>>
sessionVars == <<sessPc, sessOpen, hellosSent, timesSent, recent, queued>>
bufferVars == <<wbuf, arrived, lastPushed, pushes, bufPc>>
bandVars == <<bandVal, bandVelocity, bandClamped, lastInput, bandPc>>
vars == <<codecVars, clientVars, streamVars, musicVars, accessVars, discoverVars, downmixVars, lightsVars, mailboxVars, sessionVars, bufferVars, bandVars>>

\* What a step of one part of the model leaves alone.
codecOthers  == <<clientVars, streamVars, musicVars, accessVars, discoverVars, downmixVars, lightsVars, mailboxVars, sessionVars, bufferVars, bandVars>>
clientOthers == <<codecVars, streamVars, musicVars, accessVars, discoverVars, downmixVars, lightsVars, mailboxVars, sessionVars, bufferVars, bandVars>>
streamOthers == <<codecVars, clientVars, musicVars, accessVars, discoverVars, downmixVars, lightsVars, mailboxVars, sessionVars, bufferVars, bandVars>>
musicOthers  == <<codecVars, clientVars, streamVars, accessVars, discoverVars, downmixVars, lightsVars, mailboxVars, sessionVars, bufferVars, bandVars>>
accessOthers == <<codecVars, clientVars, streamVars, musicVars, discoverVars, downmixVars, lightsVars, mailboxVars, sessionVars, bufferVars, bandVars>>
discoverOthers == <<codecVars, clientVars, streamVars, musicVars, accessVars, downmixVars, lightsVars, mailboxVars, sessionVars, bufferVars, bandVars>>
downmixOthers == <<codecVars, clientVars, streamVars, musicVars, accessVars, discoverVars, lightsVars, mailboxVars, sessionVars, bufferVars, bandVars>>
lightsOthers == <<codecVars, clientVars, streamVars, musicVars, accessVars, discoverVars, downmixVars, mailboxVars, sessionVars, bufferVars, bandVars>>
mailboxOthers == <<codecVars, clientVars, streamVars, musicVars, accessVars, discoverVars, downmixVars, lightsVars, sessionVars, bufferVars, bandVars>>
sessionOthers == <<codecVars, clientVars, streamVars, musicVars, accessVars, discoverVars, downmixVars, lightsVars, mailboxVars, bufferVars, bandVars>>
bufferOthers == <<codecVars, clientVars, streamVars, musicVars, accessVars, discoverVars, downmixVars, lightsVars, mailboxVars, sessionVars, bandVars>>
bandOthers == <<codecVars, clientVars, streamVars, musicVars, accessVars, discoverVars, downmixVars, lightsVars, mailboxVars, sessionVars, bufferVars>>

\* The stream is not part of the codec model or of the client model.
StreamIdle ==
    /\ connPc = "start"
    /\ current_id = 0
    /\ sentCount = 0
    /\ lastSent = [id |-> 0, refers_to |-> 0, kind |-> [tag |-> 0]]
    /\ hasRead = FALSE

\* The music task and the display loop are not part of those models either.
MusicIdle ==
    /\ runPc = "connect"
    /\ retries = 0
    /\ runRet = "none"
    /\ failures = 0
    /\ lastRun = [ev |-> "none", sleep |-> 0]
    /\ controllers = <<>>
    /\ frame = [some |-> FALSE, data |-> <<>>]
    /\ ticks_since_new_frame = 0
    /\ current_color = <<>>
    /\ displayPc = "running"
    /\ sinceFrame = -1
    /\ lastTick = [mask |-> <<>>, chosen |-> 0, invoked |-> {}, colors |-> <<>>]
    /\ buf = <<>>
    /\ spectrum_state = <<>>
    /\ sleepTicks = 0

\* Nor are the message-passing controllers and their arbiter.
AccessIdle ==
    /\ inbox = [c \in {"blank", "music"} |-> <<>>]
    /\ outbox = <<>>
    /\ sender = [c \in {"blank", "music"} |-> FALSE]
    /\ has_requested_access = FALSE
    /\ mainPc = "away"
    /\ arbSender = TRUE
    /\ owner = "none"
    /\ requests = {}
    /\ revoking = FALSE
    /\ granted = [c \in {"blank", "music"} |-> FALSE]
    /\ lastWrite = [by |-> "none", colors |-> <<>>, granted |-> FALSE]
    /\ awaitingAnswer = FALSE

\* Nor is discovery.
DiscoverIdle ==
    /\ discPc = "listening"
    /\ examined = 0
    /\ lastItem = "none"
    /\ lastResponse = <<>>
    /\ target = [some |-> FALSE, ip |-> "", port |-> 0]
    /\ connects = 0
    /\ discRet = "none"

\* No block is being downmixed.
DownmixIdle ==
    /\ dmBlock = [channels |-> 1, buffer |-> <<>>]
    /\ dmOut = [r |-> "none", data |-> <<>>]

\* The serial sink has received nothing.
LightsIdle ==
    /\ sinkPc = "receiving"
    /\ ledBuffer = <<>>
    /\ lastColor = <<>>
    /\ sinkReceived = 0
    /\ writes = 0
    /\ written = <<>>

\* Nobody uses the mailbox.
MailboxIdle ==
    /\ slot = [some |-> FALSE, id |-> 0]
    /\ lock = "free"
    /\ writerPc = "next"
    /\ outFrame = 0
    /\ nextFrame = 1
    /\ published = 0
    /\ readerPc = "idle"
    /\ readerSaw = FALSE
    /\ takes = <<>>

\* No session of the client is followed.
SessionIdle ==
    /\ sessPc = "connect"
    /\ sessOpen = FALSE
    /\ hellosSent = 0
    /\ timesSent = 0
    /\ recent = <<>>
    /\ queued = 0

\* No frame is pushed onto a sample buffer.
BufferIdle ==
    /\ wbuf = <<>>
    /\ arrived = <<>>
    /\ lastPushed = <<>>
    /\ pushes = 0
    /\ bufPc = "running"

\* No band is followed.
BandIdle ==
    /\ bandVal = 0
    /\ bandVelocity = 0
    /\ bandClamped = 0
    /\ lastInput = -1
    /\ bandPc = "exact"

-----------------------------------------------------------------------------
(* Bytes and little-endian integers (bytes::Buf / bytes::BufMut).           *)

BASE_MESSAGE_SIZE == 26

Take(s, n) == SubSeq(s, 1, n)
Drop(s, n) == SubSeq(s, n + 1, Len(s))

\* Integer division rounding toward zero, as Rust's `/` on signed integers.
TruncDiv(a, b) == IF a >= 0 THEN a \div b ELSE -((-a) \div b)
\* The remainder with the sign of the dividend, as Rust's `%`.
TruncRem(a, b) == a - b * TruncDiv(a, b)

put_u16_le(x) == <<x % 256, x \div 256>>

\* x in 0 .. 2^31-1 (every length of the model is).
put_u32_le(x) ==
    <<x % 256, (x \div 256) % 256, (x \div 65536) % 256, x \div 16777216>>

\* Two's complement of a 32-bit signed integer.
put_i32_le(x) ==
    IF x >= 0 THEN put_u32_le(x)
    ELSE LET y == (x + 2147483647) + 1     \* x + 2^31, in 0 .. 2^31-1
         IN  <<y % 256, (y \div 256) % 256, (y \div 65536) % 256,
               (y \div 16777216) + 128>>

get_u16_le(b, o) == b[o + 1] + 256 * b[o + 2]

\* A value of 2^31 or more is reported as 2^31-1: it is only ever compared
\* with buffer lengths, all far below it.
get_u32_le(b, o) ==
    IF b[o + 4] >= 128 THEN 2147483647
    ELSE b[o + 1] + 256 * b[o + 2] + 65536 * b[o + 3] + 16777216 * b[o + 4]

get_i32_le(b, o) ==
    IF b[o + 4] < 128
    THEN b[o + 1] + 256 * b[o + 2] + 65536 * b[o + 3] + 16777216 * b[o + 4]
    ELSE ((b[o + 1] + 256 * b[o + 2] + 65536 * b[o + 3]
            + 16777216 * (b[o + 4] - 128)) - 2147483647) - 1

-----------------------------------------------------------------------------
(* time::Duration as the codec uses it: [seconds, nanoseconds], the two of  *)
(* the same sign, |nanoseconds| < 10^9.                                     *)

Dur(s, n) == [seconds |-> s, nanoseconds |-> n]

whole_seconds(d) == d.seconds
subsec_microseconds(d) == TruncDiv(d.nanoseconds, 1000)
whole_milliseconds(d) == d.seconds * 1000 + TruncDiv(d.nanoseconds, 1000000)

seconds(x) == Dur(x, 0)
microseconds(x) == Dur(TruncDiv(x, 1000000), TruncRem(x, 1000000) * 1000)
milliseconds(x) == Dur(TruncDiv(x, 1000), TruncRem(x, 1000) * 1000000)

\* Duration + Duration, renormalised so that both parts have the same sign.
DurAdd(a, b) ==
    LET s == a.seconds + b.seconds
        n == a.nanoseconds + b.nanoseconds
    IN  IF n >= 1000000000 \/ (s < 0 /\ n > 0) THEN Dur(s + 1, n - 1000000000)
        ELSE IF n <= -1000000000 \/ (s > 0 /\ n < 0) THEN Dur(s - 1, n + 1000000000)
        ELSE Dur(s, n)

\* As FromWire, with the second field taken for milliseconds.
FromWire_millis(sec, usec) == DurAdd(seconds(sec), milliseconds(usec))

\* sec.seconds() + usec.microseconds(), the way decode rebuilds a duration.
FromWire(sec, usec) == DurAdd(seconds(sec), microseconds(usec))

-----------------------------------------------------------------------------
(* Strings are their UTF-8 bytes.  The texts of the model:                  *)

S_flac   == <<102, 108, 97, 99>>                                \* "flac"
S_ogg    == <<111, 103, 103>>                                   \* "ogg"
S_a      == <<97>>                                              \* "a"
S_b      == <<98>>                                              \* "b"
S_c      == <<99>>                                              \* "c"
S_x86_64 == <<120, 56, 54, 95, 54, 52>>                         \* "x86_64"
S_Snapclient == <<83, 110, 97, 112, 99, 108, 105, 101, 110, 116>>   \* "Snapclient"
S_hostname == <<104, 111, 115, 116, 110, 97, 109, 101>>         \* "hostname"
S_Ubuntu == <<85, 98, 117, 110, 116, 117>>                      \* "Ubuntu"
S_0_17_1 == <<48, 46, 49, 55, 46, 49>>                          \* "0.17.1"
S_mac    == <<48, 48, 58, 48, 48, 58, 48, 48, 58, 48, 48, 58, 48, 48, 58, 48, 48>>
                                                                \* "00:00:00:00:00:00"

\* std::str::from_utf8 on the byte strings of the model, which hold ASCII
\* bytes and 0xFF (never part of a UTF-8 text) only.
from_utf8_ok(b) == \A i \in 1..Len(b) : b[i] < 128

-----------------------------------------------------------------------------
(* serde_json::to_vec of the three JSON bodies.  Numbers are written in     *)
(* decimal, strings between quotes (the strings of the model need no        *)
(* escape), struct fields in declaration order under their renamed keys.    *)

RECURSIVE Digits(_)
Digits(n) == IF n < 10 THEN <<48 + n>> ELSE Digits(n \div 10) \o <<48 + (n % 10)>>

JsonInt(n) == IF n < 0 THEN <<45>> \o Digits(-n) ELSE Digits(n)
JsonStr(s) == <<34>> \o s \o <<34>>
JsonBool(b) == IF b THEN <<116, 114, 117, 101>> ELSE <<102, 97, 108, 115, 101>>

\* #[serde(rename_all = "camelCase")] struct SnapServerSettings, as the JSON
\* object it is written as: the two durations are numbers of milliseconds.
SettingsFields(s) ==
    [bufferMs |-> whole_milliseconds(s.buffer_ms),
     latency  |-> whole_milliseconds(s.latency),
     muted    |-> s.muted,
     volume   |-> s.volume]

SettingsText(j) ==
       <<123, 34, 98, 117, 102, 102, 101, 114, 77, 115, 34, 58>>      \* {"bufferMs":
    \o JsonInt(j.bufferMs)
    \o <<44, 34, 108, 97, 116, 101, 110, 99, 121, 34, 58>>            \* ,"latency":
    \o JsonInt(j.latency)
    \o <<44, 34, 109, 117, 116, 101, 100, 34, 58>>                    \* ,"muted":
    \o JsonBool(j.muted)
    \o <<44, 34, 118, 111, 108, 117, 109, 101, 34, 58>>               \* ,"volume":
    \o JsonInt(j.volume)
    \o <<125>>

SettingsJson(s) == SettingsText(SettingsFields(s))

\* #[serde(rename_all = "PascalCase")] struct SnapHello
HelloJson(h) ==
       <<123, 34, 65, 114, 99, 104, 34, 58>> \o JsonStr(h.arch)       \* {"Arch":
    \o <<44, 34, 67, 108, 105, 101, 110, 116, 78, 97, 109, 101, 34, 58>>
    \o JsonStr(h.client_name)                                         \* ,"ClientName":
    \o <<44, 34, 72, 111, 115, 116, 78, 97, 109, 101, 34, 58>>
    \o JsonStr(h.host_name)                                           \* ,"HostName":
    \o <<44, 34, 73, 68, 34, 58>> \o JsonStr(h.id)                    \* ,"ID":
    \o <<44, 34, 73, 110, 115, 116, 97, 110, 99, 101, 34, 58>>
    \o JsonInt(h.instance)                                            \* ,"Instance":
    \o <<44, 34, 77, 65, 67, 34, 58>> \o JsonStr(h.mac)               \* ,"MAC":
    \o <<44, 34, 79, 83, 34, 58>> \o JsonStr(h.os)                    \* ,"OS":
    \o <<44, 34, 83, 110, 97, 112, 83, 116, 114, 101, 97, 109, 80, 114, 111,
         116, 111, 99, 111, 108, 86, 101, 114, 115, 105, 111, 110, 34, 58>>
    \o JsonInt(h.protocol_version)                      \* ,"SnapStreamProtocolVersion":
    \o <<44, 34, 86, 101, 114, 115, 105, 111, 110, 34, 58>>
    \o JsonStr(h.version)                                             \* ,"Version":
    \o <<125>>

\* HashMap<String, String>: `ord` is the order in which the map's entries are
\* iterated, a sequence of <<key, value>> pairs.
RECURSIVE TagsEntries(_)
TagsEntries(ord) ==
    IF ord = <<>> THEN <<>>
    ELSE JsonStr(ord[1][1]) \o <<58>> \o JsonStr(ord[1][2])
         \o (IF Len(ord) > 1 THEN <<44>> ELSE <<>>) \o TagsEntries(Tail(ord))

TagsJson(ord) == <<123>> \o TagsEntries(ord) \o <<125>>

\* The orders a map (a set of <<key, value>> pairs) may be iterated in.
Orders(tags) ==
    {o \in [1..Cardinality(tags) -> tags] : \A i, j \in DOMAIN o : i # j => o[i] # o[j]}

-----------------------------------------------------------------------------
(* Messages.  A SnapMessage is [base, kind]; a kind carries its variant in  *)
(* `tag` (SnapKind::id gives the wire number).                              *)

SnapBase(id, refers_to, received, sent) ==
    [id |-> id, refers_to |-> refers_to, received |-> received, sent |-> sent]

CodecHeader(codec, payload) == [tag |-> 1, codec |-> codec, payload |-> payload]
WireChunk(timestamp, payload) == [tag |-> 2, timestamp |-> timestamp, payload |-> payload]
ServerSettings(settings) == [tag |-> 3, settings |-> settings]
Time(delta) == [tag |-> 4, delta |-> delta]
Hello(payload) == [tag |-> 5, payload |-> payload]
StreamTags(tags) == [tag |-> 6, tags |-> tags]

SnapMessage(base, kind) == [base |-> base, kind |-> kind]

\* The Hello that connect sends (client.rs 71-83).
ConnectHello ==
    [arch |-> S_x86_64, client_name |-> S_Snapclient, host_name |-> S_hostname,
     id |-> S_mac, instance |-> 1, mac |-> S_mac, os |-> S_Ubuntu,
     protocol_version |-> 2, version |-> S_0_17_1]

\* As size, with the WireChunk's timestamp counted as one 32-bit field.
size_short(kind, ord) ==
    CASE kind.tag = 1 -> 4 + Len(kind.codec) + 4 + Len(kind.payload)
      [] kind.tag = 2 -> 4 + 4 + Len(kind.payload)
      [] kind.tag = 3 -> 4 + Len(SettingsJson(kind.settings))
      [] kind.tag = 4 -> 8
      [] kind.tag = 5 -> 4 + Len(HelloJson(kind.payload))
      [] kind.tag = 6 -> 4 + Len(TagsJson(ord))

\* SnapKind::size: the body length written into the envelope.  `ord` is the
\* iteration order of a StreamTags map (unused by the other kinds).
size(kind, ord) ==
    CASE kind.tag = 1 -> 4 + Len(kind.codec) + 4 + Len(kind.payload)
      [] kind.tag = 2 -> 8 + 4 + Len(kind.payload)
      [] kind.tag = 3 -> 4 + Len(SettingsJson(kind.settings))
      [] kind.tag = 4 -> 8
      [] kind.tag = 5 -> 4 + Len(HelloJson(kind.payload))
      [] kind.tag = 6 -> 4 + Len(TagsJson(ord))

\* The envelope encode writes: tag, id, refers_to, received, sent, body size.
EncodeBase(item, ord) ==
       put_u16_le(item.kind.tag)
    \o put_u16_le(item.base.id)
    \o put_u16_le(item.base.refers_to)
    \o put_i32_le(whole_seconds(item.base.received))
    \o put_i32_le(subsec_microseconds(item.base.received))
    \o put_i32_le(whole_seconds(item.base.sent))
    \o put_i32_le(subsec_microseconds(item.base.sent))
    \o put_u32_le(size(item.kind, ord))

\* The body encode writes after the envelope.
EncodeBody(kind, ord) ==
    CASE kind.tag = 1 ->
            put_u32_le(Len(kind.codec)) \o kind.codec
            \o put_u32_le(Len(kind.payload)) \o kind.payload
      [] kind.tag = 2 ->
            put_i32_le(whole_seconds(kind.timestamp))
            \o put_i32_le(subsec_microseconds(kind.timestamp))
            \o put_u32_le(Len(kind.payload)) \o kind.payload
      [] kind.tag = 3 ->
            LET payload == SettingsJson(kind.settings)
            IN  put_u32_le(Len(payload)) \o payload
      [] kind.tag = 4 ->
            put_i32_le(whole_seconds(kind.delta))
            \o put_i32_le(subsec_microseconds(kind.delta))
      [] kind.tag = 5 ->
            LET payload == HelloJson(kind.payload)
            IN  put_u32_le(Len(payload)) \o payload
      [] kind.tag = 6 ->
            LET payload == TagsJson(ord)
            IN  put_u32_le(Len(payload)) \o payload

\* SnapCodec::encode: the bytes appended to dst.
encode(item, ord) == EncodeBase(item, ord) \o EncodeBody(item.kind, ord)

-----------------------------------------------------------------------------
(* The values of the model.                                                 *)

OtherHello ==
    [arch |-> S_a, client_name |-> <<>>, host_name |-> S_b, id |-> S_c,
     instance |-> 0, mac |-> S_c, os |-> S_a, protocol_version |-> 10,
     version |-> S_b]

Hellos == {ConnectHello, OtherHello}

Settings(buffer_ms, latency, muted, volume) ==
    [buffer_ms |-> buffer_ms, latency |-> latency, muted |-> muted, volume |-> volume]

\* The JSON objects from_slice can return as server settings.
JsonMs == {-20, 0, 1, 100, 1500}
JsonVolumes == {0, 100}
JsonSettings == [bufferMs : JsonMs, latency : JsonMs, muted : BOOLEAN, volume : JsonVolumes]

\* The StreamTags maps, each a set of <<key, value>> pairs with distinct keys.
TagMaps == { {}, {<<S_a, S_b>>}, {<<S_a, S_b>>, <<S_c, <<>>>>} }

-----------------------------------------------------------------------------
(* serde_json::from_slice.  A text is accepted when it is the text of a     *)
(* value of the model; every other text of the model (not JSON at all, or   *)
(* an object without the fields of the struct) is an error.                 *)

NoValue == [ok |-> FALSE]

from_slice_settings(b) ==
    LET c == {j \in JsonSettings : SettingsText(j) = b}
    IN  IF c = {} THEN NoValue
        ELSE LET j == CHOOSE j \in c : TRUE
             IN  [ok |-> TRUE,
                  v  |-> Settings(milliseconds(j.bufferMs), milliseconds(j.latency),
                                  j.muted, j.volume)]

from_slice_hello(b) ==
    LET c == {h \in Hellos : HelloJson(h) = b}
    IN  IF c = {} THEN NoValue ELSE [ok |-> TRUE, v |-> CHOOSE h \in c : TRUE]

from_slice_tags(b) ==
    LET c == {t \in TagMaps : \E o \in Orders(t) : TagsJson(o) = b}
    IN  IF c = {} THEN NoValue ELSE [ok |-> TRUE, v |-> CHOOSE t \in c : TRUE]

-----------------------------------------------------------------------------
(* SnapCodec::decode.                                                       *)

NoKind == [tag |-> 0]
NoMsg  == [base |-> SnapBase(0, 0, Dur(0, 0), Dur(0, 0)), kind |-> NoKind]

BodyOk(kind)  == [r |-> "Ok", kind |-> kind, why |-> "none", id |-> 0]
BodyErr(why)  == [r |-> "Err", kind |-> NoKind, why |-> why, id |-> 0]
\* Buf::get_u32_le / get_i32_le on fewer than 4 bytes and BytesMut::split_to
\* past the end panic.
BodyPanic     == [r |-> "Panic", kind |-> NoKind, why |-> "none", id |-> 0]

\* As UnknownTag, an error that does not say which tag it was.
UnknownTag_anonymous(id) == BodyErr("UnknownTag")

\* `id => Err(anyhow!("Unrecognized packet ID {}", id))`
UnknownTag(id) == [r |-> "Err", kind |-> NoKind, why |-> "UnknownTag", id |-> id]

\* A 32-bit length prefix, then that many bytes: [ok, bytes, rest].
LengthPrefixed(data) ==
    IF Len(data) < 4 THEN [ok |-> FALSE, bytes |-> <<>>, rest |-> <<>>]
    ELSE LET n == get_u32_le(data, 0)
             d == Drop(data, 4)
         IN  IF n > Len(d) THEN [ok |-> FALSE, bytes |-> <<>>, rest |-> <<>>]
             ELSE [ok |-> TRUE, bytes |-> Take(d, n), rest |-> Drop(d, n)]

\* The `match msg_type` of decode, on the body `data` split off the buffer.
ParseBody(msg_type, data) ==
    CASE msg_type = 1 ->
            LET c == LengthPrefixed(data)
            IN  IF ~c.ok THEN BodyPanic
                ELSE IF ~from_utf8_ok(c.bytes) THEN BodyErr("BadString")
                ELSE LET p == LengthPrefixed(c.rest)
                     IN  IF ~p.ok THEN BodyPanic
                         ELSE BodyOk(CodecHeader(c.bytes, p.bytes))
      [] msg_type = 2 ->
            IF Len(data) < 8 THEN BodyPanic
            ELSE LET p == LengthPrefixed(Drop(data, 8))
                 IN  IF ~p.ok THEN BodyPanic
                     ELSE BodyOk(WireChunk(
                            FromWire(get_i32_le(data, 0), get_i32_le(data, 4)),
                            p.bytes))
      [] msg_type = 3 ->
            LET p == LengthPrefixed(data)
            IN  IF ~p.ok THEN BodyPanic
                ELSE LET v == from_slice_settings(p.bytes)
                     IN  IF v.ok THEN BodyOk(ServerSettings(v.v))
                         ELSE BodyErr("Malformed")
      [] msg_type = 4 ->
            IF Len(data) < 8 THEN BodyPanic
            ELSE BodyOk(Time(FromWire(get_i32_le(data, 0), get_i32_le(data, 4))))
      [] msg_type = 5 ->
            LET p == LengthPrefixed(data)
            IN  IF ~p.ok THEN BodyPanic
                ELSE LET v == from_slice_hello(p.bytes)
                     IN  IF v.ok THEN BodyOk(Hello(v.v)) ELSE BodyErr("Malformed")
      [] msg_type = 6 ->
            LET p == LengthPrefixed(data)
            IN  IF ~p.ok THEN BodyPanic
                ELSE LET v == from_slice_tags(p.bytes)
                     IN  IF v.ok THEN BodyOk(StreamTags(v.v)) ELSE BodyErr("Malformed")
      [] OTHER -> UnknownTag(msg_type)

\* As NeedMore, had decode read the envelope off the buffer itself instead of
\* off a cursor over it.
NeedMore_advanced(b) ==
    [r |-> "None", msg |-> NoMsg, why |-> "none", id |-> 0,
     rest |-> IF Len(b) >= BASE_MESSAGE_SIZE THEN Drop(b, BASE_MESSAGE_SIZE) ELSE b]

NeedMore(b) == [r |-> "None", msg |-> NoMsg, why |-> "none", id |-> 0, rest |-> b]

\* As Consume, with the envelope left in the buffer.
Consume_body_only(b, sz) == Drop(b, sz)

\* src.advance(BASE_MESSAGE_SIZE); src.split_to(size): what stays in the buffer.
Consume(b, sz) == Drop(b, BASE_MESSAGE_SIZE + sz)

\* One call decode(src) at local time `received`: what it returns (r, msg,
\* why) and the buffer it leaves (rest).
decode(b, received) ==
    IF Len(b) < BASE_MESSAGE_SIZE THEN NeedMore(b)
    ELSE LET msg_type  == get_u16_le(b, 0)
             id        == get_u16_le(b, 2)
             refers_to == get_u16_le(b, 4)
             sent_sec  == get_i32_le(b, 14)
             sent_usec == get_i32_le(b, 18)
             sz        == get_u32_le(b, 22)
         IN  IF Len(b) - BASE_MESSAGE_SIZE < sz THEN NeedMore(b)
             ELSE LET base == SnapBase(id, refers_to, received, FromWire(sent_sec, sent_usec))
                      data == SubSeq(b, BASE_MESSAGE_SIZE + 1, BASE_MESSAGE_SIZE + sz)
                      body == ParseBody(msg_type, data)
                  IN  [r    |-> body.r,
                       msg  |-> IF body.r = "Ok" THEN SnapMessage(base, body.kind) ELSE NoMsg,
                       why  |-> body.why,
                       id   |-> body.id,
                       rest |-> Consume(b, sz)]

-----------------------------------------------------------------------------
(* The messages and raw frames the sender of the codec model sends.         *)

Base0 == SnapBase(0, 0, Dur(0, 0), Dur(0, 0))
Base1 == SnapBase(7, 0, Dur(42, 0), Dur(42, 0))
\* sent = -1.5 s
Base2 == SnapBase(65535, 258, Dur(1, 500000000), Dur(-1, -500000000))
\* sent = 1.5 us, as Instant::elapsed() may give (SnapStream::send)
Base3 == SnapBase(256, 0, Dur(0, 1500), Dur(0, 1500))

CodecMsgs ==
    { SnapMessage(Base0, CodecHeader(S_flac, <<1, 2, 255>>)),
      SnapMessage(Base2, CodecHeader(<<>>, <<>>)),
      SnapMessage(Base1, WireChunk(Dur(-1, -500000000), <<7>>)),
      SnapMessage(Base0, WireChunk(Dur(2, 1000), <<>>)),
      SnapMessage(Base3, WireChunk(Dur(0, 999), <<0>>)),
      SnapMessage(Base1, ServerSettings(Settings(Dur(0, 100000000), Dur(0, 0), FALSE, 100))),
      SnapMessage(Base0, ServerSettings(Settings(Dur(1, 500000000), Dur(0, 1500000), TRUE, 0))),
      SnapMessage(Base2, ServerSettings(Settings(Dur(0, -20000000), Dur(0, 1000000), FALSE, 0))),
      SnapMessage(Base2, Time(Dur(0, -20000000))),
      SnapMessage(Base1, Time(Dur(0, 0))),
      SnapMessage(Base0, Time(Dur(0, 20000500))),
      SnapMessage(Base0, Hello(ConnectHello)),
      SnapMessage(Base2, Hello(OtherHello)),
      SnapMessage(Base0, StreamTags({})),
      SnapMessage(Base1, StreamTags({<<S_a, S_b>>})),
      SnapMessage(Base2, StreamTags({<<S_a, S_b>>, <<S_c, <<>>>>})) }

\* The iteration orders of a message's map (one empty order for the kinds
\* without a map).
MsgOrders(m) == IF m.kind.tag = 6 THEN Orders(m.kind.tags) ELSE {<<>>}

\* An envelope written by hand: tag, id, sent seconds, body length.
RawBase(tag, id, sent_sec, n) ==
       put_u16_le(tag) \o put_u16_le(id) \o put_u16_le(0)
    \o put_i32_le(0) \o put_i32_le(0)
    \o put_i32_le(sent_sec) \o put_i32_le(0)
    \o put_u32_le(n)

\* Scenario S1: a Hello whose 16-byte body is a length 12 and "helloworld!!".
RawS1 == RawBase(5, 7, 42, 16)
         \o <<12, 0, 0, 0, 104, 101, 108, 108, 111, 119, 111, 114, 108, 100, 33, 33>>

RawFrames ==
    { RawS1,
      RawBase(9, 1, 0, 0),                                 \* unknown tag, no body
      RawBase(0, 1, 0, 2) \o <<1, 2>>,                     \* unknown tag, a body
      RawBase(2, 1, 0, 12) \o <<0, 0, 0, 0, 0, 0, 0, 0, 5, 0, 0, 0>>,
                                                     \* payload length 5, no payload
      RawBase(4, 1, 0, 4) \o <<1, 0, 0, 0>>,               \* a Time of 4 bytes
      RawBase(1, 1, 0, 0),                                 \* a CodecHeader of 0 bytes
      RawBase(1, 1, 0, 9) \o <<1, 0, 0, 0, 255, 0, 0, 0, 0>>,  \* codec name 0xFF
      RawBase(3, 1, 0, 6) \o <<2, 0, 0, 0, 123, 125>>,     \* settings "{}"
      RawBase(6, 1, 0, 5) \o <<1, 0, 0, 0, 123>>,          \* tags "{"
      RawBase(4, 1, 0, 10) \o <<1, 0, 0, 0, 224, 220, 248, 255, 9, 9>>,
                                    \* a Time of 1 s - 0.5 s and two more bytes
      RawBase(3, 1, 0, 4) \o <<255, 255, 255, 255>> }      \* length 2^32-1

\* What may follow a frame that is still in flight.
FollowUps ==
    { SnapMessage(Base1, Time(Dur(0, 0))),
      SnapMessage(Base1, WireChunk(Dur(-1, -500000000), <<7>>)) }

\* The local times decode stamps `received` with.
RecvTimes == {Dur(0, 0), Dur(3, 250)}

MaxInFlight == 2

-----------------------------------------------------------------------------
(* The codec between a sender and the decoder's buffer.                     *)

NoFrame == [hasMsg |-> FALSE, msg |-> NoMsg, ord |-> <<>>, bytes |-> <<>>]
NoRes   == [r |-> "Idle", msg |-> NoMsg, why |-> "none", id |-> 0, frame |-> NoFrame]

CodecInit ==
    /\ wire = <<>>
    /\ src = <<>>
    /\ pending = <<>>
    /\ pre = <<>>
    /\ res = NoRes
    /\ codecPc = "open"

CanSend(m) ==
    /\ codecPc # "failed"
    /\ Len(pending) < MaxInFlight
    /\ pending # <<>> => m \in FollowUps

\* The peer encodes message m (Encoder::encode) and writes it to the socket.
Send(m, ord) ==
    /\ CanSend(m)
    /\ wire' = wire \o encode(m, ord)
    /\ pending' = Append(pending, [hasMsg |-> TRUE, msg |-> m, ord |-> ord,
                                   bytes |-> encode(m, ord)])
    /\ codecPc' = "open"
    /\ pre' = <<>>
    /\ res' = NoRes
    /\ UNCHANGED src

\* The peer writes a frame that no encoder produced.
SendRaw(f) ==
    /\ codecPc # "failed"
    /\ pending = <<>>
    /\ wire' = wire \o f
    /\ pending' = Append(pending, [hasMsg |-> FALSE, msg |-> NoMsg, ord |-> <<>>,
                                   bytes |-> f])
    /\ codecPc' = "open"
    /\ pre' = <<>>
    /\ res' = NoRes
    /\ UNCHANGED src

\* Framed reads k more bytes from the socket into the decoder's buffer.
Feed(k) ==
    /\ codecPc # "failed"
    /\ k >= 1
    /\ k <= Len(wire)
    /\ src' = src \o Take(wire, k)
    /\ wire' = Drop(wire, k)
    /\ codecPc' = "open"
    /\ pre' = <<>>
    /\ res' = NoRes
    /\ UNCHANGED pending

\* Framed calls decode on the buffer.
Decode(received) ==
    /\ codecPc # "failed"
    /\ LET d == decode(src, received)
           f == IF pending = <<>> THEN NoFrame ELSE Head(pending)
       IN  /\ pre' = src
           /\ src' = d.rest
           /\ res' = [r |-> d.r, msg |-> d.msg, why |-> d.why, id |-> d.id, frame |-> f]
           /\ pending' = IF d.r = "None" \/ pending = <<>> THEN pending ELSE Tail(pending)
           /\ codecPc' = IF d.r \in {"Err", "Panic"} THEN "failed" ELSE "decoded"
    /\ UNCHANGED wire

\* The stream is dropped and a new one connected (SnapStream::connect):
\* Framed::new starts from empty buffers.
Reconnect ==
    /\ codecPc = "failed"
    /\ wire' = <<>>
    /\ src' = <<>>
    /\ pending' = <<>>
    /\ pre' = <<>>
    /\ res' = NoRes
    /\ codecPc' = "open"

\* The client is not part of the codec model.
ClientIdle ==
    /\ now = 0
    /\ streamOpen = TRUE
    /\ queue = {}
    /\ nextKey = 0
    /\ time_diff = 0
    /\ delay = 0
    /\ header = [present |-> FALSE, sample_rate |-> 0]
    /\ pc = "idle"
    /\ ret = [r |-> "Idle", frame |-> <<>>]
    /\ last = [op |-> "none", ts |-> 0, skew |-> 0, dec |-> FALSE, ins |-> FALSE,
               cmp |-> "none", drop |-> FALSE]
    /\ delivered = <<>>

CodecNext ==
    \/ \E m \in CodecMsgs : \E ord \in MsgOrders(m) : Send(m, ord) /\ UNCHANGED codecOthers
    \/ \E f \in RawFrames : SendRaw(f) /\ UNCHANGED codecOthers
    \/ \E k \in {1, Len(wire)} : Feed(k) /\ UNCHANGED codecOthers
    \/ \E t \in RecvTimes : Decode(t) /\ UNCHANGED codecOthers
    \/ Reconnect /\ UNCHANGED codecOthers

InitCodec == CodecInit /\ ClientIdle /\ StreamIdle /\ MusicIdle /\ AccessIdle /\ DiscoverIdle /\ DownmixIdle /\ LightsIdle /\ MailboxIdle /\ SessionIdle /\ BufferIdle /\ BandIdle

CodecSpec == InitCodec /\ [][CodecNext]_vars

-----------------------------------------------------------------------------
(* Claims about the codec (checked under CodecSpec).                        *)

IsPrefix(p, s) == Len(p) <= Len(s) /\ p = Take(s, Len(p))
IsStrictPrefix(p, s) == Len(p) < Len(s) /\ IsPrefix(p, s)

\* A decode call has just returned (or panicked).
DecodeReturned == codecPc \in {"decoded", "failed"} /\ res.r # "Idle"

\* C1. Framing resynchronization: when the buffer decode is called on is a
\* strict prefix of encode(m), for any message m, decode returns "need more"
\* and leaves the buffer as it was.
C1_NeedMore ==
    DecodeReturned =>
        \A m \in CodecMsgs : \A ord \in MsgOrders(m) :
            IsStrictPrefix(pre, encode(m, ord)) => res.r = "None" /\ src = pre

\* A decode call on the envelope of an encoded message and a part of its body.
C1_Witness ==
    /\ DecodeReturned
    /\ Len(pre) > BASE_MESSAGE_SIZE
    /\ \E m \in CodecMsgs : \E ord \in MsgOrders(m) : IsStrictPrefix(pre, encode(m, ord))
    /\ res.r = "None"

\* C2. With at least 26 + n bytes buffered (n the envelope's body length), a
\* decode call removes exactly the first 26 + n bytes, whether the body parses
\* or not, and leaves the bytes after them as they were.
C2_ConsumesFrame ==
    (DecodeReturned /\ Len(pre) >= BASE_MESSAGE_SIZE
        /\ Len(pre) - BASE_MESSAGE_SIZE >= get_u32_le(pre, 22))
    => /\ res.r \in {"Ok", "Err", "Panic"}
       /\ Len(src) = Len(pre) - (BASE_MESSAGE_SIZE + get_u32_le(pre, 22))
       /\ pre = Take(pre, BASE_MESSAGE_SIZE + get_u32_le(pre, 22)) \o src

\* Scenario S1 with bytes of a following frame behind it: an error, 42 bytes
\* removed, the following bytes left.
C2_Witness ==
    /\ DecodeReturned
    /\ IsPrefix(RawS1, pre)
    /\ res.r = "Err" /\ res.why = "Malformed"
    /\ Len(pre) - Len(src) = 42
    /\ src # <<>>

\* A duration the wire carries exactly: whole microseconds.
WholeMicros(d) == d.nanoseconds % 1000 = 0
\* A duration a JSON body carries exactly: whole milliseconds.
WholeMillis(d) == d.nanoseconds % 1000000 = 0

\* A message of the data model: times in seconds and microseconds, settings
\* in integer milliseconds.
WellFormed(m) ==
    /\ WholeMicros(m.base.sent)
    /\ m.kind.tag = 2 => WholeMicros(m.kind.timestamp)
    /\ m.kind.tag = 4 => WholeMicros(m.kind.delta)
    /\ m.kind.tag = 3 => /\ WholeMillis(m.kind.settings.buffer_ms)
                         /\ WholeMillis(m.kind.settings.latency)

\* C3. Framing round-trip: decoding the bytes of encode(m), m well-formed,
\* gives a message with m's id, refers_to, sent and kind (variant and body);
\* received alone may differ.
C3_RoundTrip ==
    (DecodeReturned /\ res.r # "None" /\ res.frame.hasMsg /\ WellFormed(res.frame.msg))
    => /\ res.r = "Ok"
       /\ res.msg.base.id = res.frame.msg.base.id
       /\ res.msg.base.refers_to = res.frame.msg.base.refers_to
       /\ res.msg.base.sent = res.frame.msg.base.sent
       /\ res.msg.kind = res.frame.msg.kind

\* A well-formed message with a negative sent time and a negative delta has
\* been encoded, decoded, and stamped with another received time.
C3_Witness ==
    /\ DecodeReturned /\ res.r = "Ok"
    /\ res.frame.hasMsg /\ WellFormed(res.frame.msg)
    /\ res.frame.msg.base.sent.seconds < 0
    /\ res.frame.msg.kind.tag = 4
    /\ res.frame.msg.kind.delta.nanoseconds < 0
    /\ res.msg.base.received # res.frame.msg.base.received

\* C4. The body length encode writes into the envelope is the number of body
\* bytes it writes, so an encoded message is 26 + body length bytes long.
C4_BodyLength ==
    \A i \in 1..Len(pending) :
        pending[i].hasMsg =>
            LET f == pending[i]
            IN  /\ get_u32_le(f.bytes, 22) = Len(EncodeBody(f.msg.kind, f.ord))
                /\ Len(f.bytes) = BASE_MESSAGE_SIZE + get_u32_le(f.bytes, 22)

\* An encoded StreamTags message of two entries is in flight.
C4_Witness ==
    \E i \in 1..Len(pending) :
        /\ pending[i].hasMsg
        /\ pending[i].msg.kind.tag = 6
        /\ Len(pending[i].ord) = 2

-----------------------------------------------------------------------------
(* SnapClient (snap/client.rs).  Durations are whole milliseconds.          *)
(*                                                                          *)
(* What the stream yields is a decoded message; the claxon decoder is not   *)
(* part of the repository, so a CodecHeader payload is the stream info it   *)
(* parses to (or none), and a WireChunk payload the block it decodes to     *)
(* (or none, or a block followed by more bytes).                            *)

NoHeader == [present |-> FALSE, sample_rate |-> 0]
FlacHeader(rate) == [present |-> TRUE, sample_rate |-> rate]

\* The state process_message reads and writes.
ClientState == [queue |-> queue, nextKey |-> nextKey, time_diff |-> time_diff,
                delay |-> delay, header |-> header]

\* As ChunkGuard, without the match guard.
ChunkGuard_always(h) == TRUE

\* `if self.header.is_some()`, the guard of the WireChunk arm.
ChunkGuard(h) == h.present

\* As ComputeDelay, with the subtraction the other way round.
ComputeDelay_swapped(timestamp, elapsed, diff, buffer) ==
    LET server_now == elapsed + diff
    IN  (server_now - timestamp) + buffer

\* server_now = instant.elapsed() + time_diff;
\* delay = (timestamp - server_now) + self.delay
ComputeDelay(timestamp, elapsed, diff, buffer) ==
    LET server_now == elapsed + diff
    IN  (timestamp - server_now) + buffer

\* As ShouldInsert, without the check.
ShouldInsert_always(d) == TRUE

\* delay.is_positive()
ShouldInsert(d) == d > 0

\* The average of the channels of a block whose channels are stored one after
\* the other (the samples of the model are small: the i32 sum does not
\* overflow).
RECURSIVE ChannelSum(_, _, _, _)
ChannelSum(buffer, i, block_size, j) ==
    IF j = 0 THEN 0
    ELSE buffer[i + block_size * (j - 1)] + ChannelSum(buffer, i, block_size, j - 1)

Downmix(block) ==
    IF block.channels # 1
    THEN LET num_channels == block.channels
             block_size == Len(block.buffer) \div num_channels
         IN  [i \in 1..block_size |->
                 TruncDiv(ChannelSum(block.buffer, i, block_size, num_channels),
                          num_channels)]
    ELSE block.buffer

\* DelayQueue::insert(data, delay) at time `elapsed`.  The chunk's time stamp
\* and the offset (buffer delay - clock difference) it was scheduled with are
\* kept with the entry for the claims.
Insert(q, key, data, d, elapsed, timestamp, diff, buffer) ==
    q \cup {[key |-> key, data |-> data, deadline |-> elapsed + d,
             timestamp |-> timestamp, offset |-> buffer - diff]}

Outcome(c, r, d, ins) ==
    [queue |-> c.queue, nextKey |-> c.nextKey, time_diff |-> c.time_diff,
     delay |-> c.delay, header |-> c.header, r |-> r, d |-> d, ins |-> ins]

\* As ApplySettings, also moving the entries already queued by the change
\* of the buffer delay.
ApplySettings_retroactive(c, buffer_ms) ==
    [c EXCEPT !.delay = buffer_ms,
              !.queue = {[e EXCEPT !.deadline = e.deadline + (buffer_ms - c.delay)] :
                            e \in c.queue}]

\* The ServerSettings arm: self.delay = settings.buffer_ms.
ApplySettings(c, buffer_ms) == [c EXCEPT !.delay = buffer_ms]

\* As TimeDiff, taking the two directions the other way round.
TimeDiff_reversed(delta, sent, received) ==
    LET client_to_server == delta
        server_to_client == received - sent
    IN  TruncDiv(client_to_server + server_to_client, 2)

\* The Time arm: server_to_client = base.sent - base.received;
\* time_diff = (client_to_server + server_to_client) / 2.
TimeDiff(delta, sent, received) ==
    LET client_to_server == delta
        server_to_client == sent - received
    IN  TruncDiv(client_to_server + server_to_client, 2)

\* As SupportedCodec, taking any codec.
SupportedCodec_any(codec) == TRUE

\* The `match codec.as_str()` of the CodecHeader arm: "flac" goes on, any
\* other codec returns the unsupported-codec error.
SupportedCodec(codec) == codec = "flac"

\* process_message(msg) at time `elapsed`, msg.received being the time decode
\* stamped: the new state and the result (r: "Ok", "Err" or "Panic"; d: the
\* delay computed for a WireChunk; ins: an entry was inserted).
process_message(c, msg, elapsed) ==
    CASE msg.tag = 3 ->
            Outcome(ApplySettings(c, msg.buffer_ms), "Ok", 0, FALSE)
      [] msg.tag = 4 ->
            Outcome([c EXCEPT !.time_diff = TimeDiff(msg.delta, msg.sent, msg.received)],
                    "Ok", 0, FALSE)
      [] msg.tag = 1 ->
            IF ~SupportedCodec(msg.codec) THEN Outcome(c, "Err", 0, FALSE)
            ELSE IF ~msg.payload.ok THEN Outcome(c, "Err", 0, FALSE)
            ELSE Outcome([c EXCEPT !.header = FlacHeader(msg.payload.sample_rate)],
                         "Ok", 0, FALSE)
      [] msg.tag = 2 /\ ChunkGuard(c.header) ->
            IF ~msg.payload.ok THEN Outcome(c, "Err", 0, FALSE)
            ELSE IF msg.payload.remaining # 0 THEN Outcome(c, "Panic", 0, FALSE)
            ELSE LET data == Downmix(msg.payload)
                     d == ComputeDelay(msg.timestamp, elapsed, c.time_diff, c.delay)
                 IN  IF ShouldInsert(d)
                     THEN Outcome([c EXCEPT
                                     !.queue = Insert(c.queue, c.nextKey, data, d, elapsed,
                                                      msg.timestamp, c.time_diff, c.delay),
                                     !.nextKey = c.nextKey + 1],
                                  "Ok", d, TRUE)
                     ELSE Outcome(c, "Ok", d, FALSE)
      [] OTHER -> Outcome(c, "Ok", 0, FALSE)

\* As Fresh, with the boundary on the other side.
Fresh_inclusive(time_over, length) == time_over <= length

\* `if time_over < length`: the frame is returned.
Fresh(time_over, length) == time_over < length

\* The playback length of a frame: 20 ms without a header, else
\* (frame.len() / sample_rate).seconds().
FrameLength(h, samples) ==
    IF h.present THEN (Len(samples) * 1000) \div h.sample_rate ELSE 20

\* The entries DelayQueue's next() may yield at time `elapsed`: the timer
\* yields an entry once its deadline is reached, earliest deadline first.
Expired(q, elapsed) ==
    {e \in q : e.deadline <= elapsed /\ \A f \in q : e.deadline <= f.deadline}

\* As NoneReady, returning None as soon as the stream has ended.
NoneReady_eof(open, q) == ~open

\* The `else` arm of select!: both branches are disabled, the stream has
\* yielded None and the queue is empty.
NoneReady(open, q) == ~open /\ q = {}

-----------------------------------------------------------------------------
(* The messages the stream of the client model yields.                      *)

MaxNow == 3
MaxChunks == 2

BufferMs == {0, 2}
TimeDeltas == {-2, 4}
\* The server's clock at the time it sends a Time message, relative to the
\* client's at the time it receives it.
Skews == {2}
SampleRates == {500}
Timestamps == {1, 2}

\* claxon's result on a CodecHeader payload.
HeaderPayloads == {[ok |-> TRUE, sample_rate |-> r] : r \in SampleRates}
                  \cup {[ok |-> FALSE, sample_rate |-> 0]}

\* claxon's result on a WireChunk payload: a block, and the bytes that remain.
Block(channels, buffer, remaining) ==
    [ok |-> TRUE, channels |-> channels, buffer |-> buffer, remaining |-> remaining]
BadBlock == [ok |-> FALSE, channels |-> 0, buffer |-> <<>>, remaining |-> 0]

ChunkPayloads ==
    { Block(1, <<5>>, 0), Block(2, <<2, 5, 4, -8>>, 0), Block(1, <<5>>, 1), BadBlock }

InSettings(buffer_ms) == [tag |-> 3, buffer_ms |-> buffer_ms]
InTime(delta, sent, received) ==
    [tag |-> 4, delta |-> delta, sent |-> sent, received |-> received]
InCodecHeader(codec, payload) == [tag |-> 1, codec |-> codec, payload |-> payload]
InWireChunk(timestamp, payload) == [tag |-> 2, timestamp |-> timestamp, payload |-> payload]
InOther(tag) == [tag |-> tag]

\* The messages the stream may yield at time `elapsed` (decode stamps
\* base.received with it).
Inbound(elapsed) ==
    {InSettings(b) : b \in BufferMs}
    \cup {InTime(dl, elapsed + k, elapsed) : dl \in TimeDeltas, k \in Skews}
    \cup {InCodecHeader(c, p) : c \in {"flac", "ogg"}, p \in HeaderPayloads}
    \cup {InWireChunk(t, p) : t \in Timestamps, p \in ChunkPayloads}
    \cup {InOther(5), InOther(6)}

-----------------------------------------------------------------------------
(* One session of the client: connect has returned, mainloop calls next()   *)
(* again and again until it returns None or an error.                       *)

NoRet == [r |-> "Idle", frame |-> <<>>]
Did(op) == [op |-> op, ts |-> 0, skew |-> 0, dec |-> FALSE, ins |-> FALSE,
            cmp |-> "none", drop |-> FALSE]

\* time_over against length.
Compare(a, b) == IF a < b THEN "lt" ELSE IF a = b THEN "eq" ELSE "gt"

\* SnapClient::connect's result (client.rs 93-102).
ClientInit ==
    /\ now = 0
    /\ streamOpen = TRUE
    /\ queue = {}
    /\ nextKey = 0
    /\ time_diff = 0
    /\ delay = 0
    /\ header = NoHeader
    /\ pc = "idle"
    /\ ret = NoRet
    /\ last = Did("none")
    /\ delivered = <<>>

\* mainloop calls client.next().
CallNext ==
    /\ pc = "idle"
    /\ pc' = "next"
    /\ ret' = NoRet
    /\ last' = Did("none")
    /\ UNCHANGED <<now, streamOpen, queue, nextKey, time_diff, delay, header, delivered>>

\* select! takes the stream branch: the stream yields msg and
\* process_message handles it; an error ends next().
Recv(msg) ==
    /\ pc = "next"
    /\ streamOpen
    /\ msg.tag = 2 => nextKey < MaxChunks
    /\ LET o == process_message(ClientState, msg, now)
       IN  /\ queue' = o.queue
           /\ nextKey' = o.nextKey
           /\ time_diff' = o.time_diff
           /\ delay' = o.delay
           /\ header' = o.header
           /\ pc' = IF o.r = "Ok" THEN "next" ELSE "done"
           /\ ret' = IF o.r = "Ok" THEN ret ELSE [r |-> o.r, frame |-> <<>>]
           /\ last' = CASE msg.tag = 1 /\ msg.codec # "flac" ->
                             [Did("header") EXCEPT !.cmp = msg.codec]
                         [] msg.tag = 2 ->
                             [Did("chunk") EXCEPT !.ts = msg.timestamp,
                                                  !.dec = msg.payload.ok /\ msg.payload.remaining = 0,
                                                  !.ins = o.ins]
                         [] msg.tag = 3 -> [Did("settings") EXCEPT !.ts = msg.buffer_ms]
                         [] msg.tag = 4 -> [Did("time") EXCEPT !.ts = msg.delta,
                                                               !.skew = msg.sent - msg.received]
                         [] OTHER -> Did("none")
    /\ UNCHANGED <<now, streamOpen, delivered>>

\* select! takes the stream branch and the stream yields an error (a decode
\* error, an I/O error).
StreamError ==
    /\ pc = "next"
    /\ streamOpen
    /\ pc' = "done"
    /\ ret' = [r |-> "Err", frame |-> <<>>]
    /\ last' = Did("none")
    /\ UNCHANGED <<now, streamOpen, queue, nextKey, time_diff, delay, header, delivered>>

\* select! takes the queue branch: entry e has expired; it is returned unless
\* it is too old.
Expire(e) ==
    /\ pc = "next"
    /\ e \in Expired(queue, now)
    /\ LET time_over == now - e.deadline
           length == FrameLength(header, e.data)
       IN  /\ queue' = queue \ {e}
           /\ IF Fresh(time_over, length)
              THEN /\ pc' = "idle"
                   /\ ret' = [r |-> "Some", frame |-> e.data]
                   /\ delivered' = Append(delivered,
                                     [key |-> e.key, deadline |-> e.deadline,
                                      timestamp |-> e.timestamp, offset |-> e.offset,
                                      open |-> streamOpen])
              ELSE /\ UNCHANGED <<pc, ret, delivered>>
           /\ last' = [Did("expire") EXCEPT !.cmp = Compare(time_over, length),
                                            !.drop = ~Fresh(time_over, length)]
    /\ UNCHANGED <<now, streamOpen, nextKey, time_diff, delay, header>>

\* select! takes the else arm.
ReturnNone ==
    /\ pc = "next"
    /\ NoneReady(streamOpen, queue)
    /\ pc' = "done"
    /\ ret' = [r |-> "None", frame |-> <<>>]
    /\ last' = Did("none")
    /\ UNCHANGED <<now, streamOpen, queue, nextKey, time_diff, delay, header, delivered>>

\* The server closes the connection: the stream yields None from now on.
\* (Once next() has returned None or an error the client is dropped.)
Close ==
    /\ pc # "done"
    /\ streamOpen
    /\ streamOpen' = FALSE
    /\ last' = Did("none")
    /\ UNCHANGED <<now, queue, nextKey, time_diff, delay, header, pc, ret, delivered>>

\* A millisecond passes.
Tick ==
    /\ pc # "done"
    /\ now < MaxNow
    /\ now' = now + 1
    /\ last' = Did("none")
    /\ UNCHANGED <<streamOpen, queue, nextKey, time_diff, delay, header, pc, ret, delivered>>

Init == ClientInit /\ CodecInit /\ StreamIdle /\ MusicIdle /\ AccessIdle /\ DiscoverIdle /\ DownmixIdle /\ LightsIdle /\ MailboxIdle /\ SessionIdle /\ BufferIdle /\ BandIdle

Next ==
    \/ CallNext /\ UNCHANGED clientOthers
    \/ \E msg \in Inbound(now) : Recv(msg) /\ UNCHANGED clientOthers
    \/ StreamError /\ UNCHANGED clientOthers
    \/ \E e \in queue : Expire(e) /\ UNCHANGED clientOthers
    \/ ReturnNone /\ UNCHANGED clientOthers
    \/ Close /\ UNCHANGED clientOthers
    \/ Tick /\ UNCHANGED clientOthers

Spec == Init /\ [][Next]_vars

-----------------------------------------------------------------------------
(* Claims about the client (checked under Spec).                            *)

\* C5. Frame scheduling: a step that processes a WireChunk whose payload
\* decodes, while a codec header is present, computes
\* delay = (timestamp - (elapsed + time_diff)) + buffer delay; it inserts
\* exactly one entry, due after that delay, when delay > 0, and leaves the
\* queue as it was when delay <= 0.
C5_Scheduling ==
    [][ (last'.op = "chunk" /\ last'.dec /\ header.present) =>
            LET d == (last'.ts - (now + time_diff)) + delay
            IN  IF d > 0
                THEN \E e \in queue' :
                        /\ e \notin queue
                        /\ queue' = queue \cup {e}
                        /\ e.deadline - now = d
                        /\ last'.ins
                ELSE queue' = queue /\ ~last'.ins ]_vars

\* A chunk has just been scheduled under a buffer delay and a clock
\* difference other than 0.  (With server_now 0 and a buffer of 100 ms the
\* formula gives 150 ms for +50 ms and nothing to insert for -200 ms.)
C5_Witness ==
    /\ last.op = "chunk" /\ last.ins
    /\ time_diff # 0 /\ delay # 0
    /\ \E e \in queue : /\ e.key = nextKey - 1
                        /\ e.deadline - now = (last.ts - (now + time_diff)) + delay
    /\ ComputeDelay(50, 0, 0, 100) = 150
    /\ ~ShouldInsert(ComputeDelay(-200, 0, 0, 100))

\* C6 as claimed: an expired entry is dropped exactly when the time beyond
\* its deadline exceeds its playback length, so that a frame late by exactly
\* its length is returned.
C6_Original ==
    last.op = "expire" => (last.drop <=> last.cmp = "gt")

\* C6. Stale expiry: an expired entry is returned to the caller exactly when
\* the time beyond its deadline is less than its playback length; a frame
\* late by its length or more is dropped and next() goes on waiting.
C6_StaleExpiry ==
    last.op = "expire" =>
        IF last.cmp = "lt"
        THEN ~last.drop /\ pc = "idle" /\ ret.r = "Some"
        ELSE last.drop /\ pc = "next" /\ ret.r = "Idle"

\* A frame late by exactly its playback length has just been dropped.
C6_Witness ==
    last.op = "expire" /\ last.cmp = "eq" /\ last.drop /\ pc = "next"

\* C7. Delay queue ordering: the frames next() has returned are in
\* non-decreasing order of their deadlines.
C7_DeadlineOrder ==
    \A i, j \in 1..Len(delivered) :
        i < j => delivered[i].deadline <= delivered[j].deadline

\* Two frames have been returned in the order opposite to their arrival,
\* scheduled under different offsets (a Time or ServerSettings message came
\* between them).
C7_Witness ==
    /\ Len(delivered) >= 2
    /\ delivered[1].key > delivered[2].key
    /\ delivered[1].offset # delivered[2].offset

C9_NoneIffClosedAndEmpty ==
    [][ (pc = "next" /\ pc' # "next") =>
            ((ret'.r = "None") <=> (~streamOpen /\ queue = {})) ]_vars

\* next() has returned None after returning a frame that was still queued
\* when the stream ended.
C9_Witness ==
    /\ pc = "done" /\ ret.r = "None"
    /\ ~streamOpen /\ queue = {}
    /\ \E i \in 1..Len(delivered) : ~delivered[i].open

\* C10. A step that processes a WireChunk while no codec header is stored
\* changes nothing: no entry, no error (next() goes on), and time_diff, the
\* buffer delay and the header stay as they were.
C10_ChunkBeforeHeader ==
    [][ (last'.op = "chunk" /\ ~header.present) =>
            /\ queue' = queue /\ nextKey' = nextKey
            /\ time_diff' = time_diff /\ delay' = delay /\ header' = header
            /\ pc' = "next" /\ ret' = ret /\ ~last'.ins ]_vars

\* A chunk, here one whose payload does not even decode, has just been
\* discarded for want of a header, after a Time and a ServerSettings message.
C10_Witness ==
    /\ last.op = "chunk" /\ ~last.dec /\ ~header.present
    /\ pc = "next" /\ queue = {}
    /\ time_diff # 0 /\ delay # 0

\* C11. A ServerSettings message sets the buffer delay and leaves the queue,
\* and with it every deadline, as it was; the buffer delay changes in no
\* other step; and an entry enters the queue only by a WireChunk, scheduled
\* with the buffer delay then in force.
C11_SettingsNotRetroactive ==
    [][ /\ last'.op = "settings" =>
              /\ delay' = last'.ts
              /\ queue' = queue /\ nextKey' = nextKey
              /\ time_diff' = time_diff /\ header' = header
        /\ delay' # delay => last'.op = "settings"
        /\ \A e \in queue' :
              \/ e \in queue
              \/ /\ last'.op = "chunk"
                 /\ e.key = nextKey
                 /\ e.deadline = now + ((last'.ts - (now + time_diff)) + delay) ]_vars

\* A ServerSettings message has just changed the buffer delay while an entry
\* scheduled under the former one is queued: its deadline is not what the new
\* buffer delay would give.
C11_Witness ==
    /\ last.op = "settings" /\ delay = last.ts
    /\ \E e \in queue : e.deadline # (e.timestamp - time_diff) + delay

\* C12. Clock sync: a Time message sets time_diff to
\* (delta + (sent - received)) / 2, received being the time decode stamped,
\* and changes nothing else; no other step changes time_diff.  (The sums of
\* the model are even numbers of milliseconds, so the half is exact.)
C12_ClockSync ==
    [][ /\ last'.op = "time" =>
              /\ 2 * time_diff' = last'.ts + last'.skew
              /\ UNCHANGED <<now, streamOpen, queue, nextKey, delay, header, pc, ret,
                             delivered>>
        /\ time_diff' # time_diff => last'.op = "time" ]_vars

\* A Time message has just set time_diff to half of 4 ms + 2 ms while an entry
\* is queued.  (delta = +20 ms and sent - received = +10 ms give +15 ms.)
C12_Witness ==
    /\ last.op = "time" /\ last.ts = 4 /\ last.skew = 2 /\ time_diff = 3
    /\ queue # {}
    /\ TimeDiff(20, 15, 5) = 15
    /\ TimeDiff(-20, 5, 15) = -15

-----------------------------------------------------------------------------
(* SnapClient::connect and SnapStream::send: the handshake and the ids.     *)

\* The largest value of current_id (a u16).
U16_MAX == 65535

MaxSends == 65538

NoSent == [id |-> 0, refers_to |-> 0, kind |-> [tag |-> 0]]

\* As NextId, wrapping whatever the build.
NextId_wrapping(id) ==
    IF id < U16_MAX
    THEN {[panic |-> FALSE, id |-> id + 1]}
    ELSE {[panic |-> FALSE, id |-> 0]}

\* `self.current_id += 1` on a u16: at 65535 the addition overflows, which
\* wraps to 0 in a build without overflow checks and panics in a build with
\* them (the default of a debug build).
NextId(id) ==
    IF id < U16_MAX
    THEN {[panic |-> FALSE, id |-> id + 1]}
    ELSE {[panic |-> FALSE, id |-> 0], [panic |-> TRUE, id |-> id]}

\* As BuildMessage, counting the ids from 1.
BuildMessage_from_one(id, kind) == [id |-> id + 1, refers_to |-> 0, kind |-> kind]

\* The message send builds: id = current_id, refers_to = 0.  (The time stamps
\* received = sent = instant.elapsed() are not part of this model.)
BuildMessage(id, kind) == [id |-> id, refers_to |-> 0, kind |-> kind]

\* SnapStream::send(kind): the message is built, current_id is incremented,
\* and the message is handed to the framed socket, which may fail.  The
\* results: r is "Ok", "Err" (the socket failed) or "Panic".
send(id, kind) ==
    {[r |-> "Panic", id |-> n.id, sent |-> FALSE, msg |-> NoSent] :
        n \in {m \in NextId(id) : m.panic}}
    \cup {[r |-> r, id |-> n.id, sent |-> (r = "Ok"),
           msg |-> IF r = "Ok" THEN BuildMessage(id, kind) ELSE NoSent] :
            n \in {m \in NextId(id) : ~m.panic}, r \in {"Ok", "Err"}}

\* One call of send from position `from`; a successful one leads to `to`.
SendStep(from, to, kind) ==
    /\ connPc = from
    /\ \E o \in send(current_id, kind) :
          /\ current_id' = o.id
          /\ sentCount' = IF o.sent THEN sentCount + 1 ELSE sentCount
          /\ lastSent' = IF o.sent THEN o.msg ELSE lastSent
          /\ connPc' = CASE o.r = "Ok" -> to
                         [] o.r = "Err" -> "failed"
                         [] OTHER -> "panicked"
    /\ UNCHANGED hasRead

\* SnapStream::connect: TcpStream::connect succeeds or fails.
TcpConnect ==
    /\ connPc = "start"
    /\ connPc' \in {"tcp", "failed"}
    /\ UNCHANGED <<current_id, sentCount, lastSent, hasRead>>

\* As SendHello, sending the Time message first.
SendHello_time_first == SendStep("tcp", "hello", Time(Dur(0, 0)))

\* stream.send(hello).await?
SendHello == SendStep("tcp", "hello", ConnectHello)

\* stream.send(time).await?, after which connect returns the client.
SendTime == SendStep("hello", "ready", Time(Dur(0, 0)))

\* A later send on the stream connect returned.
SendMore ==
    /\ sentCount < MaxSends
    /\ SendStep("ready", "ready", Time(Dur(0, 0)))

\* SnapClient::next polls SnapStream::next.
StreamRead ==
    /\ connPc = "ready"
    /\ hasRead' = TRUE
    /\ UNCHANGED <<connPc, current_id, sentCount, lastSent>>

StreamInit == StreamIdle

StreamNext ==
    \/ TcpConnect /\ UNCHANGED streamOthers
    \/ SendHello /\ UNCHANGED streamOthers
    \/ SendTime /\ UNCHANGED streamOthers
    \/ SendMore /\ UNCHANGED streamOthers
    \/ StreamRead /\ UNCHANGED streamOthers

InitStream == StreamInit /\ CodecInit /\ ClientIdle /\ MusicIdle /\ AccessIdle /\ DiscoverIdle /\ DownmixIdle /\ LightsIdle /\ MailboxIdle /\ SessionIdle /\ BufferIdle /\ BandIdle

StreamSpec == InitStream /\ [][StreamNext]_vars

-----------------------------------------------------------------------------
(* Claims about the stream (checked under StreamSpec).                      *)

\* C13. Handshake order: once the TCP connection stands, the first message
\* connect sends is the Hello (id 0), the second is Time with delta 0 (id 1),
\* connect returns the client with exactly these two sent, and nothing is
\* read from the stream before that.
C13_HandshakeOrder ==
    [][ /\ connPc' \in {"start", "tcp"} => sentCount' = 0
        /\ (connPc = "tcp" /\ sentCount' # sentCount) =>
              /\ sentCount = 0
              /\ lastSent' = [id |-> 0, refers_to |-> 0, kind |-> ConnectHello]
              /\ connPc' = "hello"
        /\ (connPc = "hello" /\ sentCount' # sentCount) =>
              /\ sentCount = 1
              /\ lastSent' = [id |-> 1, refers_to |-> 0, kind |-> Time(Dur(0, 0))]
              /\ connPc' = "ready"
        /\ (connPc # "ready" /\ connPc' = "ready") =>
              /\ connPc = "hello"
              /\ lastSent.kind = ConnectHello
              /\ sentCount' = 2
              /\ ~hasRead'
        /\ hasRead' => sentCount' >= 2 ]_vars

\* connect has just returned the client: Hello and Time(0) are sent and
\* nothing is read yet.
C13_Witness ==
    /\ connPc = "ready" /\ sentCount = 2 /\ current_id = 2
    /\ lastSent = [id |-> 1, refers_to |-> 0, kind |-> Time(Dur(0, 0))]
    /\ ~hasRead

\* C14 as claimed: the k-th message sent on a stream (k from 0) carries
\* id = k mod 65536 and refers_to = 0, and the counter wraps from 65535 to 0
\* without any failure.
C14_Original ==
    /\ sentCount >= 1 =>
          /\ lastSent.id = (sentCount - 1) % (U16_MAX + 1)
          /\ lastSent.refers_to = 0
    /\ connPc # "panicked"

-----------------------------------------------------------------------------
(* The music task: run and mainloop of controller/music/mod.rs.             *)

NUM_RETRIES == 5

\* The seconds run sleeps before the next attempt.
SLEEP_SECS == 5

\* The ticks of the display loop that a sleep of run lasts at least.  The
\* loop ticks 60 times a second, which makes 300 in 5 seconds; the model
\* counts the first of them, more than the 10 of the activity window and the
\* one that takes a frame.
TicksPerSleep == 12

\* As RetriesExhausted, giving up one attempt earlier.
RetriesExhausted_at_limit(n) == n >= NUM_RETRIES

\* `if retries > NUM_RETRIES`
RetriesExhausted(n) == n > NUM_RETRIES

\* As mainloop, returning Ok(()) when the stream has ended.
mainloop_ok_at_eof(next_result) == IF next_result = "None" THEN "Ok" ELSE "Err"

\* What mainloop returns once client.next() yields no frame: an error of
\* next() is passed on by `?`, and None leaves the loop for
\* Err("SnapClient connection unexpectedly closed, ...").
mainloop(next_result) == "Err"

Ran(ev, sleep) == [ev |-> ev, sleep |-> sleep]

\* The end of an iteration of run's loop: give up, or sleep.
EndOfIteration(n) ==
    IF RetriesExhausted(n)
    THEN /\ runPc' = "done"
         /\ runRet' = "Err"
    ELSE /\ runPc' = "sleep"
         /\ runRet' = runRet

RunInit ==
    /\ runPc = "connect"
    /\ retries = 0
    /\ runRet = "none"
    /\ failures = 0
    /\ lastRun = Ran("none", 0)
    /\ sleepTicks = 0

\* As DiscoverOk, retries left as it is.
DiscoverOk_counting_on ==
    /\ runPc = "connect"
    /\ failures' = 0
    /\ runPc' = "mainloop"
    /\ lastRun' = Ran("connected", 0)
    /\ UNCHANGED <<retries, runRet, displayVars, sleepTicks>>

\* SnapClient::discover() returns a client: run enters mainloop.
DiscoverOk ==
    /\ runPc = "connect"
    /\ retries' = 0
    /\ failures' = 0
    /\ runPc' = "mainloop"
    /\ lastRun' = Ran("connected", 0)
    /\ UNCHANGED <<runRet, displayVars, sleepTicks>>

\* SnapClient::discover() fails.
DiscoverErr ==
    /\ runPc = "connect"
    /\ retries' = retries + 1
    /\ failures' = failures + 1
    /\ EndOfIteration(retries')
    /\ lastRun' = Ran("failed", IF runPc' = "sleep" THEN SLEEP_SECS ELSE 0)
    /\ sleepTicks' = 0
    /\ UNCHANGED displayVars

\* mainloop: client.next() yields a frame, which replaces the mailbox's.
MainloopFrame(f) ==
    /\ runPc = "mainloop"
    /\ frame' = [some |-> TRUE, data |-> f]
    /\ lastRun' = Ran("frame", 0)
    /\ UNCHANGED <<runPc, retries, runRet, failures>>
    /\ UNCHANGED <<controllers, ticks_since_new_frame, current_color, displayPc,
                   sinceFrame, lastTick, buf, spectrum_state, sleepTicks>>

\* mainloop: client.next() yields None (the stream has ended) or an error;
\* mainloop returns and run goes on from its result.
MainloopEnd(next_result) ==
    /\ runPc = "mainloop"
    /\ IF mainloop(next_result) = "Ok"
       THEN /\ runPc' = "done"
            /\ runRet' = "Ok"
       ELSE EndOfIteration(retries)
    /\ lastRun' = Ran(IF next_result = "None" THEN "eof" ELSE "error",
                      IF runPc' = "sleep" THEN SLEEP_SECS ELSE 0)
    /\ sleepTicks' = 0
    /\ UNCHANGED <<retries, failures, displayVars>>

\* As Wake, with no tick of the display loop in between.
Wake_at_once ==
    /\ runPc = "sleep"
    /\ runPc' = "connect"
    /\ lastRun' = Ran("woke", 0)
    /\ sleepTicks' = 0
    /\ UNCHANGED <<retries, runRet, failures, displayVars>>

\* The sleep is over: the next iteration starts.  While run slept
\* sleep(Duration::from_secs(5)), a running display loop has ticked.
Wake ==
    /\ runPc = "sleep"
    /\ displayPc = "running" => sleepTicks >= TicksPerSleep
    /\ runPc' = "connect"
    /\ lastRun' = Ran("woke", 0)
    /\ sleepTicks' = 0
    /\ UNCHANGED <<retries, runRet, failures, displayVars>>

-----------------------------------------------------------------------------
(* MusicController (controller/music/mod.rs) and the display loop that      *)
(* polls the controllers.                                                   *)

NUM_LIGHTS == 3

\* usize::MAX, the initial value of ticks_since_new_frame: more than any
\* number of ticks; the model writes it as the largest integer it has.
USIZE_MAX == 2147483647

Color(i, r, g, b) == [i |-> i, r |-> r, g |-> g, b |-> b]

OFF == [n \in 1..NUM_LIGHTS |-> Color(0, 0, 0, 0)]

\* The frames mainloop may put into the mailbox.
MusicFrames == {<<5>>, <<3, -1>>}

NoneFrame == [some |-> FALSE, data |-> <<>>]

\* process_frame: the FFT pipeline and its state are not modelled; a frame
\* gives one of these colours.
process_frame(data) ==
    { [n \in 1..NUM_LIGHTS |-> Color(0, 0, 0, 3)],
      [n \in 1..NUM_LIGHTS |-> Color(255, 252, 254, 164)] }

has_new_frame(fr) == fr.some

\* As is_active, counting the tenth tick in.
is_active_inclusive(fr, ticks) == has_new_frame(fr) \/ ticks <= 10

\* self.has_new_frame() || self.ticks_since_new_frame < 10
is_active(fr, ticks) == has_new_frame(fr) \/ ticks < 10

\* The length of `buf` (BUFFER_SIZE samples in the code).
BufLen == 2

\* MusicController::start: buf is all zero, val and velocity of each band
\* are 0.0.
NoSamples == [n \in 1..BufLen |-> 0]
NewSpectrum == [n \in 1..NUM_LIGHTS |-> [val |-> 0, velocity |-> 0]]

\* As rev, the samples in the order of arrival.
rev_not(data) == data

\* frame.iter().rev(): the most recent samples first.
rev(data) == [n \in 1..Len(data) |-> data[Len(data) + 1 - n]]

\* slice.copy_within(0..len, dest): the first `len` elements are copied to
\* the positions from `dest` on (positions count from 0 in the code, from 1
\* here).
copy_within(b, len, dest) ==
    [n \in 1..Len(b) |-> IF n > dest /\ n <= dest + len THEN b[n - dest] ELSE b[n]]

\* b[..from.len()].copy_from_slice(&from)
copy_from_slice(b, from) ==
    [n \in 1..Len(b) |-> IF n <= Len(from) THEN from[n] ELSE b[n]]

\* process_frame pushes the samples of the frame onto buf, the most recent
\* first, keeping the first `left_over` of the old ones (a frame no longer
\* than buf).
push_samples(old, data) ==
    LET in_buf == rev(data)
        left_over == Len(old) - Len(data)
    IN  copy_from_slice(copy_within(old, left_over, Len(data)), in_buf)

\* The push of process_frame for a frame of any length.  For a frame longer
\* than buf, `self.buf.len() - frame.len()` leaves usize: a build with
\* overflow checks panics there, and one without them gets a huge
\* left_over, with which copy_within panics on its range check before it
\* copies anything.
push_outcomes(old, data) ==
    IF Len(data) > Len(old)
    THEN {[panic |-> TRUE, buf |-> old]}
    ELSE {[panic |-> FALSE, buf |-> push_samples(old, data)]}

\* The band states process_frame may leave when it returns these colours:
\* the colour's i is the band's clamped val; the velocity is the one after
\* gravity or the one of a rise.
spectrum_after(colors) ==
    { [n \in 1..NUM_LIGHTS |-> [val |-> colors[n].i, velocity |-> v]] : v \in {-1, 16} }

\* As tick, the bands falling on a tick without a frame.
tick_falling(fr, ticks, color, samples, spectrum) ==
    IF fr.some
    THEN UNION { { [panic |-> FALSE, frame |-> NoneFrame, ticks |-> 0, color |-> c,
                    buf |-> push_samples(samples, fr.data), spectrum_state |-> st] :
                      st \in spectrum_after(c) } :
                 c \in process_frame(fr.data) }
    ELSE {[panic |-> FALSE, frame |-> fr, ticks |-> ticks + 1, color |-> color,
           buf |-> samples,
           spectrum_state |-> [n \in 1..NUM_LIGHTS |->
                                  [spectrum[n] EXCEPT !.velocity = @ - 1]]]}

\* MusicController::tick: the results it may have.  `+= 1` on usize::MAX
\* wraps or panics, as the build has it.
tick(fr, ticks, color, samples, spectrum) ==
    IF fr.some
    THEN UNION { { [panic |-> FALSE, frame |-> NoneFrame, ticks |-> 0, color |-> c,
                    buf |-> push_samples(samples, fr.data), spectrum_state |-> st] :
                      st \in spectrum_after(c) } :
                 c \in process_frame(fr.data) }
    ELSE IF ticks < USIZE_MAX
    THEN {[panic |-> FALSE, frame |-> fr, ticks |-> ticks + 1, color |-> color,
           buf |-> samples, spectrum_state |-> spectrum]}
    ELSE {[panic |-> FALSE, frame |-> fr, ticks |-> 0, color |-> color,
           buf |-> samples, spectrum_state |-> spectrum],
          [panic |-> TRUE, frame |-> fr, ticks |-> ticks, color |-> color,
           buf |-> samples, spectrum_state |-> spectrum]}

\* The Blank controller as a polled controller: always active, all-off.
BlankIsActive == TRUE
BlankTick == OFF

\* The vectors of controllers the display loop may be given.
ControllerOrders == {<<"music", "blank">>, <<"blank", "music">>, <<"music">>}

\* The active-mask of the controllers, in their declared order.
ActiveMask(cs, fr, ticks) ==
    [n \in 1..Len(cs) |-> IF cs[n] = "music" THEN is_active(fr, ticks) ELSE BlankIsActive]

\* As Choose, taking the last active controller.
Choose_last(A) ==
    IF \E n \in DOMAIN A : A[n]
    THEN CHOOSE n \in DOMAIN A : A[n] /\ \A m \in DOMAIN A : A[m] => m <= n
    ELSE 0

\* The scan of the display loop: the first active controller, 0 if none is.
Choose(A) ==
    IF \E n \in DOMAIN A : A[n]
    THEN CHOOSE n \in DOMAIN A : A[n] /\ \A m \in DOMAIN A : A[m] => n <= m
    ELSE 0

DisplayInit ==
    /\ controllers \in ControllerOrders
    /\ frame = NoneFrame
    /\ ticks_since_new_frame = USIZE_MAX
    /\ current_color = OFF
    /\ displayPc = "running"
    /\ sinceFrame = -1
    /\ lastTick = [mask |-> <<>>, chosen |-> 0, invoked |-> {}, colors |-> <<>>]
    /\ buf = NoSamples
    /\ spectrum_state = NewSpectrum

\* One tick of the display loop: the chosen controller's tick() is invoked
\* and its colours are forwarded to the LED sink.
DisplayTick ==
    /\ displayPc = "running"
    /\ LET A == ActiveMask(controllers, frame, ticks_since_new_frame)
           chosen == Choose(A)
       IN  CASE chosen = 0 ->
                   /\ lastTick' = [mask |-> A, chosen |-> 0, invoked |-> {},
                                   colors |-> <<>>]
                   /\ UNCHANGED <<frame, ticks_since_new_frame, current_color,
                                  displayPc, sinceFrame, buf, spectrum_state>>
             [] chosen # 0 /\ controllers[chosen] = "music" ->
                   \E o \in tick(frame, ticks_since_new_frame, current_color,
                                  buf, spectrum_state) :
                      /\ frame' = o.frame
                      /\ buf' = o.buf
                      /\ spectrum_state' = o.spectrum_state
                      /\ ticks_since_new_frame' = o.ticks
                      /\ current_color' = o.color
                      /\ displayPc' = IF o.panic THEN "panicked" ELSE "running"
                      /\ sinceFrame' = IF frame.some THEN 0
                                       ELSE IF sinceFrame = -1 THEN -1
                                       ELSE sinceFrame + 1
                      /\ lastTick' = [mask |-> A, chosen |-> chosen,
                                      invoked |-> IF o.panic THEN {} ELSE {chosen},
                                      colors |-> IF o.panic THEN <<>> ELSE o.color]
             [] OTHER ->
                   /\ lastTick' = [mask |-> A, chosen |-> chosen, invoked |-> {chosen},
                                   colors |-> BlankTick]
                   /\ UNCHANGED <<frame, ticks_since_new_frame, current_color,
                                  displayPc, sinceFrame, buf, spectrum_state>>
    /\ sleepTicks' = IF runPc = "sleep" /\ sleepTicks < TicksPerSleep
                      THEN sleepTicks + 1 ELSE sleepTicks
    /\ UNCHANGED <<controllers, runVars>>

MusicInit == RunInit /\ DisplayInit

MusicNext ==
    \/ DiscoverOk /\ UNCHANGED musicOthers
    \/ DiscoverErr /\ UNCHANGED musicOthers
    \/ \E f \in MusicFrames : MainloopFrame(f) /\ UNCHANGED musicOthers
    \/ \E r \in {"None", "Err"} : MainloopEnd(r) /\ UNCHANGED musicOthers
    \/ Wake /\ UNCHANGED musicOthers
    \/ DisplayTick /\ UNCHANGED musicOthers

InitMusic == MusicInit /\ CodecInit /\ ClientIdle /\ StreamIdle /\ AccessIdle /\ DiscoverIdle /\ DownmixIdle /\ LightsIdle /\ MailboxIdle /\ SessionIdle /\ BufferIdle /\ BandIdle

MusicSpec == InitMusic /\ [][MusicNext]_vars

-----------------------------------------------------------------------------
(* The message-passing controllers: BlankController::run (controller/       *)
(* blank.rs), MusicController::mainloop (controller/music.rs), and the      *)
(* arbiter that owns the one sender of the light channel and lends it.      *)

Controllers == {"blank", "music"}

\* The capacity of the mpsc channels: send waits while a channel is full.
ChannelCap == 2

\* [(0, [255, 0, 0]); 3], the frame BlankController sends when granted.
BlankFrame == [n \in 1..NUM_LIGHTS |-> Color(0, 255, 0, 0)]

NoWrite == [by |-> "none", colors |-> <<>>, granted |-> FALSE]

\* As take, leaving the sender in place.
take_as_ref(s) == [taken |-> s, left |-> s]

\* Option::take on the local `sender`: what is taken and what is left.
take(s) == [taken |-> s, left |-> FALSE]

\* self.tx.send((self.token, msg)).await
SendOut(c, msg) ==
    /\ Len(outbox) < ChannelCap
    /\ outbox' = Append(outbox, <<c, msg>>)

\* InMessage::RevokeAccess, in both controllers: the sender, if held, goes
\* back in RescindAccess.
OnRevoke(c) ==
    LET t == take(sender[c])
    IN  /\ sender' = [sender EXCEPT ![c] = t.left]
        /\ granted' = [granted EXCEPT ![c] = FALSE]
        /\ IF t.taken THEN SendOut(c, "RescindAccess") ELSE UNCHANGED outbox

AccessInit ==
    /\ inbox = [c \in Controllers |-> <<>>]
    /\ outbox = <<>>
    /\ sender = [c \in Controllers |-> FALSE]
    /\ has_requested_access = FALSE
    /\ mainPc = "away"
    /\ arbSender = TRUE
    /\ owner = "none"
    /\ requests = {}
    /\ revoking = FALSE
    /\ granted = [c \in Controllers |-> FALSE]
    /\ lastWrite = NoWrite
    /\ awaitingAnswer = FALSE

\* BlankController::run: one message from rx.
BlankRecv ==
    /\ inbox["blank"] # <<>>
    /\ inbox' = [inbox EXCEPT !["blank"] = Tail(@)]
    /\ IF Head(inbox["blank"]) = "GrantAccess"
       THEN /\ sender' = [sender EXCEPT !["blank"] = TRUE]
            /\ granted' = [granted EXCEPT !["blank"] = TRUE]
            /\ lastWrite' = [by |-> "blank", colors |-> BlankFrame,
                             granted |-> granted'["blank"]]
            /\ UNCHANGED outbox
       ELSE /\ OnRevoke("blank")
            /\ UNCHANGED lastWrite
    /\ UNCHANGED <<has_requested_access, mainPc, arbSender, owner, requests, revoking,
                   awaitingAnswer>>

\* run calls mainloop with a new client: its locals start afresh.
MusicEnter ==
    /\ mainPc = "away"
    /\ mainPc' = "mainloop"
    /\ has_requested_access' = FALSE
    /\ sender' = [sender EXCEPT !["music"] = FALSE]
    /\ UNCHANGED <<inbox, outbox, arbSender, owner, requests, revoking, granted, lastWrite,
                   awaitingAnswer>>

\* What the process_frame of music.rs returns: Ok(colors) or Err.
ProcessResults(f) ==
    {[ok |-> TRUE, colors |-> c] : c \in process_frame(f)}
        \cup {[ok |-> FALSE, colors |-> <<>>]}

\* mainloop, client.next() yields a frame: with the sender, the frame is
\* processed and the colours are sent (r is what process_frame returns);
\* without it, access is requested.
MusicFrame(f, r) ==
    /\ mainPc = "mainloop"
    /\ IF sender["music"]
       THEN /\ lastWrite' = IF ~r.ok THEN lastWrite
                            ELSE [by |-> "music", colors |-> r.colors,
                                  granted |-> granted["music"]]
            /\ UNCHANGED <<outbox, awaitingAnswer>>
       ELSE /\ IF ~has_requested_access
               THEN /\ SendOut("music", "RequestAccess")
                    /\ awaitingAnswer' = TRUE
               ELSE UNCHANGED <<outbox, awaitingAnswer>>
            /\ UNCHANGED lastWrite
    /\ UNCHANGED <<inbox, sender, has_requested_access, mainPc, arbSender, owner,
                   requests, revoking, granted>>

\* mainloop, client.next() yields None or an error: mainloop returns Err and
\* its local `sender` is dropped with it.
MusicStreamEnd ==
    /\ mainPc = "mainloop"
    /\ mainPc' = "away"
    /\ sender' = [sender EXCEPT !["music"] = FALSE]
    /\ has_requested_access' = FALSE
    /\ UNCHANGED <<inbox, outbox, arbSender, owner, requests, revoking, granted, lastWrite,
                   awaitingAnswer>>

\* mainloop, self.rx.recv() yields a message.
MusicRecv ==
    /\ mainPc = "mainloop"
    /\ inbox["music"] # <<>>
    /\ inbox' = [inbox EXCEPT !["music"] = Tail(@)]
    /\ IF Head(inbox["music"]) = "GrantAccess"
       THEN /\ sender' = [sender EXCEPT !["music"] = TRUE]
            /\ granted' = [granted EXCEPT !["music"] = TRUE]
            /\ UNCHANGED outbox
       ELSE OnRevoke("music")
    /\ has_requested_access' = FALSE
    /\ awaitingAnswer' = FALSE
    /\ UNCHANGED <<mainPc, arbSender, owner, requests, revoking, lastWrite>>

\* The arbiter.  Its policy (priority tokens, a heap of pending requests) is
\* left open: it may grant the sender it has to Blank or to any controller
\* that has requested access, and it may revoke the owner at any time.
ArbGrant(c) ==
    /\ arbSender /\ owner = "none"
    /\ c = "blank" \/ c \in requests
    /\ Len(inbox[c]) < ChannelCap
    /\ inbox' = [inbox EXCEPT ![c] = Append(@, "GrantAccess")]
    /\ arbSender' = FALSE
    /\ owner' = c
    /\ requests' = requests \ {c}
    /\ UNCHANGED <<outbox, sender, has_requested_access, mainPc, revoking, granted, lastWrite,
                   awaitingAnswer>>

ArbRevoke ==
    /\ owner # "none" /\ ~revoking
    /\ Len(inbox[owner]) < ChannelCap
    /\ inbox' = [inbox EXCEPT ![owner] = Append(@, "RevokeAccess")]
    /\ revoking' = TRUE
    /\ UNCHANGED <<outbox, sender, has_requested_access, mainPc, arbSender, owner,
                   requests, granted, lastWrite, awaitingAnswer>>

\* The arbiter takes one (Token, OutMessage) from the controllers.
ArbRecv ==
    /\ outbox # <<>>
    /\ outbox' = Tail(outbox)
    /\ IF Head(outbox)[2] = "RequestAccess"
       THEN /\ requests' = requests \cup {Head(outbox)[1]}
            /\ UNCHANGED <<arbSender, owner, revoking>>
       ELSE /\ arbSender' = TRUE
            /\ owner' = "none"
            /\ revoking' = FALSE
            /\ UNCHANGED requests
    /\ UNCHANGED <<inbox, sender, has_requested_access, mainPc, granted, lastWrite,
                   awaitingAnswer>>

AccessNext ==
    \/ BlankRecv /\ UNCHANGED accessOthers
    \/ MusicEnter /\ UNCHANGED accessOthers
    \/ \E f \in MusicFrames : \E r \in ProcessResults(f) :
          MusicFrame(f, r) /\ UNCHANGED accessOthers
    \/ MusicStreamEnd /\ UNCHANGED accessOthers
    \/ MusicRecv /\ UNCHANGED accessOthers
    \/ \E c \in Controllers : ArbGrant(c) /\ UNCHANGED accessOthers
    \/ ArbRevoke /\ UNCHANGED accessOthers
    \/ ArbRecv /\ UNCHANGED accessOthers

InitAccess == AccessInit /\ CodecInit /\ ClientIdle /\ StreamIdle /\ MusicIdle /\ DiscoverIdle /\ DownmixIdle /\ LightsIdle /\ MailboxIdle /\ SessionIdle /\ BufferIdle /\ BandIdle

AccessSpec == InitAccess /\ [][AccessNext]_vars

-----------------------------------------------------------------------------
(* Claims about the display loop and the music controller (MusicSpec).      *)

\* C15. Arbiter priority: in every tick of the display loop, with A the
\* active-mask of the controllers in declared order, the one controller whose
\* tick() is invoked is the lowest index n with A[n], its colours are the
\* ones that reach the sink, and no tick() is invoked when no A[n] holds.
C15_ArbiterPriority ==
    lastTick.mask # <<>> =>
        LET A == lastTick.mask
        IN  /\ DOMAIN A = 1..Len(controllers)
            /\ \A n \in lastTick.invoked : A[n] /\ \A m \in 1..(n - 1) : ~A[m]
            /\ (\E n \in DOMAIN A : A[n]) => Cardinality(lastTick.invoked) = 1
            /\ \A n \in lastTick.invoked :
                  lastTick.colors = IF controllers[n] = "music" THEN current_color ELSE OFF

\* The music controller, first in order and active, has just been ticked
\* while Blank, always active, was not.
C15_Witness ==
    /\ controllers = <<"music", "blank">>
    /\ lastTick.mask = <<TRUE, TRUE>>
    /\ lastTick.invoked = {1}
    /\ lastTick.colors # OFF

\* C17. Music controller activity window: is_active is true exactly when a
\* frame waits in the mailbox or fewer than 10 ticks of the controller have
\* occurred since the tick that last consumed a frame; it is false before any
\* frame has arrived, and it only becomes true by the arrival of a frame.
C17_ActivityWindow ==
    /\ [](is_active(frame, ticks_since_new_frame)
            <=> (frame.some \/ (sinceFrame # -1 /\ sinceFrame < 10)))
    /\ ~is_active(frame, ticks_since_new_frame)
    /\ [][ (~is_active(frame, ticks_since_new_frame)
              /\ is_active(frame', ticks_since_new_frame'))
           => (~frame.some /\ frame'.some) ]_vars

\* The tenth tick in a row without a frame has just made the controller
\* inactive.
C17_Witness ==
    /\ sinceFrame = 10 /\ ~frame.some
    /\ ticks_since_new_frame = 10
    /\ ~is_active(frame, ticks_since_new_frame)
    /\ lastTick.invoked # {} /\ current_color # OFF

\* C19 as stated. Retry limit: the fifth consecutive failed connection
\* attempt ends run with an error, and no sixth attempt is made.
C19_Original ==
    /\ failures <= NUM_RETRIES
    /\ (lastRun.ev = "failed" /\ failures = NUM_RETRIES)
          => (runPc = "done" /\ runRet = "Err")

\* C19, amended. Retry limit: run ends, with an error, exactly upon the sixth
\* consecutive failed connection attempt (the first attempt and NUM_RETRIES
\* retries); each earlier failure is followed by a sleep of 5 s, and an
\* attempt other than the first only starts out of that sleep.
C19_RetryLimit ==
    /\ [](/\ failures <= NUM_RETRIES + 1
          /\ runPc = "done" <=> (lastRun.ev = "failed" /\ failures = NUM_RETRIES + 1)
          /\ runPc = "done" => runRet = "Err"
          /\ (lastRun.ev = "failed" /\ failures <= NUM_RETRIES)
                => (runPc = "sleep" /\ runRet = "none" /\ lastRun.sleep = 5))
    /\ [][ (runPc' = "connect" /\ runPc # "connect") => runPc = "sleep" ]_vars

\* run has given up after its sixth failed attempt in a row.
C19_Witness ==
    /\ runPc = "done" /\ runRet = "Err"
    /\ lastRun.ev = "failed"
    /\ failures = 6 /\ retries = 6

\* C20. When the stream ends (client.next() yields None), the music task does
\* not terminate: mainloop is left, run sleeps, and the only step the task
\* takes from there is a new connection attempt.
C20_ReconnectOnEof ==
    /\ [](lastRun.ev = "eof"
            => (runPc = "sleep" /\ runRet = "none" /\ retries = 0
                /\ lastRun.sleep = SLEEP_SECS))
    /\ [][ (lastRun.ev = "eof" /\ runPc' # runPc)
            => (runPc' = "connect" /\ runRet' = "none") ]_vars
    /\ [][ lastRun'.ev = "eof" => (runPc = "mainloop" \/ lastRun.ev = "eof") ]_vars

\* The stream has just ended and run is asleep before reconnecting.
C20_Witness ==
    /\ lastRun.ev = "eof"
    /\ runPc = "sleep" /\ runRet = "none"

\* C39. The retry counter counts consecutive failed connection attempts
\* only: a successful connect sets it to 0 and it is 0 throughout mainloop;
\* a failure of mainloop leaves it at 0 and run goes to sleep; run ends only
\* by a failed connection attempt that was preceded by failed attempts
\* only, so with every attempt accepted the task never terminates.
C39_ConsecutiveFailures ==
    /\ []((lastRun.ev = "connected" \/ runPc = "mainloop") => retries = 0)
    /\ [](lastRun.ev \in {"eof", "error"}
            => (retries = 0 /\ runPc = "sleep" /\ runRet = "none"))
    /\ [][ runPc = "mainloop" => (retries' = retries /\ runPc' # "done") ]_vars
    /\ [][ (runPc' = "done" /\ runPc # "done")
             => (runPc = "connect" /\ retries' = retries + 1
                 /\ failures' = retries' /\ retries' > NUM_RETRIES) ]_vars
    /\ [](retries = failures)

\* A session has failed with an error of next(); run has slept its 5 s with
\* the counter at 0 and is about to connect again.
C39_Witness ==
    /\ lastRun.ev = "error"
    /\ runPc = "sleep" /\ runRet = "none"
    /\ retries = 0
    /\ sleepTicks = TicksPerSleep

-----------------------------------------------------------------------------
(* Claims about the message-passing controllers (AccessSpec).               *)

\* The senders of the light channel there are: with the arbiter, in a
\* GrantAccess or a RescindAccess under way, or held by a controller.
SenderCount ==
    (IF arbSender THEN 1 ELSE 0)
    + Cardinality({c \in Controllers : sender[c]})
    + Cardinality({<<c, n>> \in Controllers \X (1..ChannelCap) :
                      n <= Len(inbox[c]) /\ inbox[c][n] = "GrantAccess"})
    + Cardinality({n \in 1..Len(outbox) : outbox[n][2] = "RescindAccess"})

C18_Original ==
    lastWrite.by = "blank" =>
        \A n \in 1..NUM_LIGHTS :
            /\ lastWrite.colors[n].i = 0 /\ lastWrite.colors[n].r = 0
            /\ lastWrite.colors[n].g = 0 /\ lastWrite.colors[n].b = 0

\* The step sends a RequestAccess of the music controller.
MusicRequests ==
    /\ Len(outbox') = Len(outbox) + 1
    /\ outbox'[Len(outbox')] = <<"music", "RequestAccess">>

\* C38 as stated. The music controller has at most one RequestAccess
\* outstanding: having sent one, it sends no other before it has received
\* GrantAccess or RevokeAccess, however many frames arrive.
C38_Original == [][ MusicRequests => ~awaitingAnswer ]_vars

-----------------------------------------------------------------------------
(* Claims about the codec header and the delay queue (Spec).                *)

\* C40. Whenever the delay queue is not empty the codec header is present:
\* an entry is inserted only by a WireChunk processed while a header is
\* stored, a stored header is never cleared, and so an entry that expires
\* is never measured against the 20 ms fallback length.
C40_HeaderWithQueue ==
    /\ [](queue # {} => header.present)
    /\ [][ (queue' \ queue # {}) => (header.present /\ last'.op = "chunk") ]_vars
    /\ [][ header.present => header'.present ]_vars
    /\ [][ (\E e \in queue : Expire(e))
             => (header.present
                 /\ \A e \in queue \ queue' :
                       FrameLength(header, e.data) = (Len(e.data) * 1000) \div header.sample_rate) ]_vars

\* An entry has expired and been measured against the header's sample rate
\* while another entry is still queued.
C40_Witness ==
    /\ last.op = "expire"
    /\ queue # {}
    /\ header.present

-----------------------------------------------------------------------------
(* Claims about errors inside process_message (Spec).                       *)

\* C21 as stated. A WireChunk whose FLAC block does not parse, processed
\* while a codec header is stored, drops only that chunk: next() goes on
\* without returning, and the stream, the queue, the clock difference, the
\* buffer delay and the header are as before.
C21_Original ==
    [][ \A t \in Timestamps :
          (header.present /\ Recv(InWireChunk(t, BadBlock)))
          => /\ pc' = "next"
             /\ ret'.r # "Err"
             /\ UNCHANGED <<streamOpen, queue, nextKey, time_diff, delay, header>> ]_vars

\* C22. A CodecHeader that announces a codec other than "flac" ends the
\* session: next() returns an error, the stored header (present or absent)
\* and the queue are left as they were, and once next() has returned the
\* error nothing more is scheduled.
C22_UnsupportedCodec ==
    /\ [][ \A p \in HeaderPayloads :
             (last'.op = "header" /\ Recv(InCodecHeader("ogg", p)))
             => /\ pc' = "done"
                /\ ret'.r = "Err"
                /\ UNCHANGED <<header, queue, nextKey>> ]_vars
    /\ [](last.op = "header" => (last.cmp # "flac" /\ pc = "done" /\ ret.r = "Err"))
    /\ [][ (pc = "done" /\ ret.r = "Err") => UNCHANGED <<pc, ret, header, queue, nextKey>> ]_vars

\* next() has returned the error for an "ogg" header that arrived after a
\* FLAC header had been stored: that header is still there.
C22_Witness ==
    /\ last.op = "header" /\ last.cmp = "ogg"
    /\ pc = "done" /\ ret.r = "Err"
    /\ header.present

-----------------------------------------------------------------------------
(* Claims about the errors of decode (CodecSpec).                           *)

\* serde_json::from_slice accepts the bytes as a body of the kind.
JsonParses(msg_type, b) ==
    CASE msg_type = 3 -> from_slice_settings(b).ok
      [] msg_type = 5 -> from_slice_hello(b).ok
      [] OTHER        -> from_slice_tags(b).ok

\* C23. When decode is called on a buffer that holds a complete message: if
\* its type tag is not one of 1..6, decode returns the unknown-tag error,
\* which carries the tag; if it is of kind 3, 5 or 6 and its JSON does not
\* parse, decode returns the malformed-body error; in both cases no message
\* is returned.
C23_DecodeErrors ==
    (DecodeReturned /\ Len(pre) >= BASE_MESSAGE_SIZE
        /\ Len(pre) - BASE_MESSAGE_SIZE >= get_u32_le(pre, 22))
    => LET msg_type == get_u16_le(pre, 0)
           body == LengthPrefixed(SubSeq(pre, BASE_MESSAGE_SIZE + 1,
                                         BASE_MESSAGE_SIZE + get_u32_le(pre, 22)))
       IN  /\ msg_type \notin 1..6
                => /\ res.r = "Err" /\ res.msg = NoMsg
                   /\ res.why = "UnknownTag" /\ res.id = msg_type
           /\ (msg_type \in {3, 5, 6} /\ body.ok /\ ~JsonParses(msg_type, body.bytes))
                => /\ res.r = "Err" /\ res.msg = NoMsg
                   /\ res.why = "Malformed"

\* decode has refused a complete message of type 9.
C23_Witness ==
    /\ DecodeReturned
    /\ Len(pre) >= BASE_MESSAGE_SIZE /\ get_u16_le(pre, 0) = 9
    /\ res.r = "Err" /\ res.why = "UnknownTag" /\ res.id = 9
    /\ codecPc = "failed"

\* The body of a message of type msg_type does not hold what its kind
\* needs: it is shorter than the fixed fields of the kind, or a length
\* prefix in it counts more bytes than follow it.
InconsistentBody(msg_type, data) ==
    CASE msg_type = 1 ->
            \/ ~LengthPrefixed(data).ok
            \/ ~LengthPrefixed(LengthPrefixed(data).rest).ok
      [] msg_type = 2 -> Len(data) < 8 \/ ~LengthPrefixed(Drop(data, 8)).ok
      [] msg_type = 4 -> Len(data) < 8
      [] msg_type \in {3, 5, 6} -> ~LengthPrefixed(data).ok
      [] OTHER -> FALSE

\* C36 as stated. When decode is called on a buffer that holds a complete
\* frame whose body is inconsistent, decode returns an error and does not
\* panic.
C36_Original ==
    (DecodeReturned /\ Len(pre) >= BASE_MESSAGE_SIZE
        /\ Len(pre) - BASE_MESSAGE_SIZE >= get_u32_le(pre, 22)
        /\ InconsistentBody(get_u16_le(pre, 0),
                            SubSeq(pre, BASE_MESSAGE_SIZE + 1,
                                   BASE_MESSAGE_SIZE + get_u32_le(pre, 22))))
    => res.r = "Err"

-----------------------------------------------------------------------------
(* SnapClient::discover (snap/client.rs): the loop over the responses of    *)
(* the mDNS listener.                                                       *)

\* The longest response and the most responses the listener yields.
MaxRecords == 3
MaxResponses == 3

RecordA(ip)    == [kind |-> "A", ip |-> ip, port |-> 0]
RecordAAAA(ip) == [kind |-> "AAAA", ip |-> ip, port |-> 0]
RecordSRV(p)   == [kind |-> "SRV", ip |-> "", port |-> p]
RecordOther    == [kind |-> "TXT", ip |-> "", port |-> 0]

\* The records a response may hold.
Records == { RecordA("192.168.1.42"), RecordA("10.0.0.7"), RecordAAAA("fe80::1"),
             RecordSRV(1704), RecordOther }

RECURSIVE SeqsUpTo(_, _)
SeqsUpTo(S, n) ==
    IF n = 0 THEN {<<>>}
    ELSE LET shorter == SeqsUpTo(S, n - 1)
         IN  shorter \cup {Append(q, x) : q \in shorter, x \in S}

Responses == SeqsUpTo(Records, MaxRecords)

\* `let mut addr: Option<IpAddr> = None; let mut port: Option<u16> = None;`
NoneFound == [addr |-> FALSE, ip |-> "", port |-> FALSE, p |-> 0]

\* As OnAAAA, an AAAA record taking the place of the address found so far.
OnAAAA_override(found, ip) == [found EXCEPT !.addr = TRUE, !.ip = ip]

\* RecordKind::AAAA(ip) => addr = addr.or(Some(ip.into()))
OnAAAA(found, ip) == IF found.addr THEN found ELSE [found EXCEPT !.addr = TRUE, !.ip = ip]

\* The `match record.kind` of the scan.
OnRecord(found, record) ==
    CASE record.kind = "SRV"  -> [found EXCEPT !.port = TRUE, !.p = record.port]
      [] record.kind = "AAAA" -> OnAAAA(found, record.ip)
      [] record.kind = "A"    -> [found EXCEPT !.addr = TRUE, !.ip = record.ip]
      [] OTHER                -> found

\* `for record in response.records()`, from the first record to the last.
RECURSIVE ScanFrom(_, _, _)
ScanFrom(found, records, n) ==
    IF n > Len(records) THEN found
    ELSE ScanFrom(OnRecord(found, records[n]), records, n + 1)

Scan(records) == ScanFrom(NoneFound, records, 1)

\* As Suitable, asking for an address only.
Suitable_addr_only(found) == found.addr

\* `if let (Some(addr), Some(port)) = (addr, port)`
Suitable(found) == found.addr /\ found.port

NoTarget == [some |-> FALSE, ip |-> "", port |-> 0]

\* As ExhaustedResult, discover returning as if it had a client.
ExhaustedResult_ok == "Ok"

\* Err(anyhow!("Discovery stopped before we found a suitable server"))
ExhaustedResult == "DiscoveryExhausted"

DiscoverInit ==
    /\ discPc = "listening"
    /\ examined = 0
    /\ lastItem = "none"
    /\ lastResponse = <<>>
    /\ target = NoTarget
    /\ connects = 0
    /\ discRet = "none"

\* stream.next() yields Some(Ok(response)): the records are scanned, and a
\* response with an address and a port ends the loop in
\* `return SnapClient::connect((addr, port)).await`.
Response(records) ==
    /\ discPc = "listening"
    /\ examined < MaxResponses
    /\ examined' = examined + 1
    /\ lastItem' = "response"
    /\ lastResponse' = records
    /\ LET found == Scan(records)
       IN  IF Suitable(found)
           THEN /\ target' = [some |-> TRUE, ip |-> found.ip, port |-> found.p]
                /\ connects' = connects + 1
                /\ discPc' = "connecting"
           ELSE UNCHANGED <<target, connects, discPc>>
    /\ UNCHANGED discRet

\* stream.next() yields None or Some(Err(..)): the `while let` ends and
\* discover returns its error.
ListenerEnds(item) ==
    /\ discPc = "listening"
    /\ lastItem' = item
    /\ discPc' = "done"
    /\ discRet' = ExhaustedResult
    /\ UNCHANGED <<examined, lastResponse, target, connects>>

\* SnapClient::connect returns, and discover returns what it returned.
ConnectReturns(r) ==
    /\ discPc = "connecting"
    /\ discPc' = "done"
    /\ discRet' = r
    /\ UNCHANGED <<examined, lastItem, lastResponse, target, connects>>

DiscoverNext ==
    \/ \E records \in Responses : Response(records) /\ UNCHANGED discoverOthers
    \/ \E item \in {"None", "Err"} : ListenerEnds(item) /\ UNCHANGED discoverOthers
    \/ \E r \in {"Ok", "Err"} : ConnectReturns(r) /\ UNCHANGED discoverOthers

InitDiscover == DiscoverInit /\ CodecInit /\ ClientIdle /\ StreamIdle /\ MusicIdle /\ AccessIdle /\ DownmixIdle /\ LightsIdle /\ MailboxIdle /\ SessionIdle /\ BufferIdle /\ BandIdle

DiscoverSpec == InitDiscover /\ [][DiscoverNext]_vars

-----------------------------------------------------------------------------
(* Claims about discovery (DiscoverSpec).                                   *)

HasKind(records, kind) == \E n \in 1..Len(records) : records[n].kind = kind

\* C24. Address choice: when the response examined holds an A record, with
\* or without AAAA records and in any order, the address found is that of an
\* A record; an AAAA record's address is found only when the response holds
\* no A record.  A 192.168.1.42, AAAA fe80::1, SRV 1704 give
\* (192.168.1.42, 1704), in any order of the three.
C24_AddressChoice ==
    /\ LET found == Scan(lastResponse)
       IN  /\ HasKind(lastResponse, "A")
                => /\ found.addr
                   /\ \E n \in 1..Len(lastResponse) :
                         lastResponse[n].kind = "A" /\ lastResponse[n].ip = found.ip
           /\ (~HasKind(lastResponse, "A") /\ HasKind(lastResponse, "AAAA"))
                => /\ found.addr
                   /\ \E n \in 1..Len(lastResponse) :
                         lastResponse[n].kind = "AAAA" /\ lastResponse[n].ip = found.ip
           /\ (~HasKind(lastResponse, "A") /\ ~HasKind(lastResponse, "AAAA")) => ~found.addr
           /\ (target.some /\ lastItem = "response")
                => (found.addr /\ target.ip = found.ip /\ target.port = found.p)
    /\ \A r \in { <<RecordA("192.168.1.42"), RecordAAAA("fe80::1"), RecordSRV(1704)>>,
                  <<RecordAAAA("fe80::1"), RecordA("192.168.1.42"), RecordSRV(1704)>>,
                  <<RecordSRV(1704), RecordAAAA("fe80::1"), RecordA("192.168.1.42")>> } :
          /\ Scan(r).ip = "192.168.1.42" /\ Scan(r).p = 1704
          /\ Suitable(Scan(r))

\* discover connects to (192.168.1.42, 1704) on a response whose AAAA record
\* comes before its A record.
C24_Witness ==
    /\ lastResponse = <<RecordAAAA("fe80::1"), RecordA("192.168.1.42"), RecordSRV(1704)>>
    /\ discPc = "connecting"
    /\ target = [some |-> TRUE, ip |-> "192.168.1.42", port |-> 1704]

\* A response carries both an address and an SRV port.
Carries(records) ==
    /\ HasKind(records, "SRV")
    /\ HasKind(records, "A") \/ HasKind(records, "AAAA")

\* C25. discover connects on the first response that carries both an address
\* and an SRV port: while it listens, no response examined so far carried
\* both; a response lacking either leaves it listening; the response that
\* carries both is the one connect is called for; and once connect has been
\* called no further response is examined.
C25_FirstSuitable ==
    /\ [](/\ (discPc = "listening" /\ examined > 0) => ~Carries(lastResponse)
          /\ discPc = "listening" => (~target.some /\ connects = 0)
          /\ target.some => (Carries(lastResponse) /\ connects = 1))
    /\ [][ examined' # examined
             => /\ discPc = "listening"
                /\ examined' = examined + 1
                /\ Carries(lastResponse') <=> (discPc' = "connecting" /\ target'.some)
                /\ ~Carries(lastResponse') => discPc' = "listening" ]_vars
    /\ [][ discPc # "listening" => UNCHANGED <<examined, lastResponse, target, connects>> ]_vars

\* Two responses without a port were skipped, the third one is connected to.
C25_Witness ==
    /\ examined = 3
    /\ discPc = "connecting" /\ connects = 1
    /\ target = [some |-> TRUE, ip |-> "fe80::1", port |-> 1704]

\* C26. When the listener ends (it yields None or an error) before a
\* response with both an address and a port was seen, discover returns the
\* discovery-exhausted error and connect has not been called.
C26_Exhausted ==
    /\ [](lastItem \in {"None", "Err"}
            => /\ discPc = "done"
               /\ discRet = "DiscoveryExhausted"
               /\ connects = 0 /\ ~target.some)
    /\ [][ (discPc = "listening" /\ lastItem' \in {"None", "Err"})
             => (discPc' = "done" /\ discRet' = "DiscoveryExhausted") ]_vars

\* The listener has ended after two responses that were not suitable.
C26_Witness ==
    /\ lastItem = "None" /\ examined = 2
    /\ discPc = "done" /\ discRet = "DiscoveryExhausted"
    /\ connects = 0

-----------------------------------------------------------------------------
(* The downmix of process_message with the i32 arithmetic of the code       *)
(* (snap/client.rs 172-196): `.sum::<i32>()` panics on overflow in a build  *)
(* with overflow checks and wraps in a build without them.                  *)

\* The most samples in a block.
MaxSamples == 4

I32_MAX == 2147483647
I32_MIN == -I32_MAX - 1

I32Samples == { I32_MIN, -1073741824, -3, 0, 1, 1073741824, I32_MAX }

\* a + b on i32: whether it overflows, and the wrapped sum.
I32Add(a, b) ==
    IF a > 0 /\ b > I32_MAX - a
    THEN [overflow |-> TRUE, value |-> (a + I32_MIN) + (b + I32_MIN)]
    ELSE IF a < 0 /\ b < I32_MIN - a
    THEN [overflow |-> TRUE, value |-> (a - I32_MIN) + (b - I32_MIN)]
    ELSE [overflow |-> FALSE, value |-> a + b]

\* a / b on i32 for b > 0: the quotient rounded towards zero.
I32Div(a, b) ==
    IF a >= 0 \/ a % b = 0 THEN a \div b ELSE (a \div b) + 1

\* (0..num_channels).map(|j| buffer[i + block_size * j]).sum::<i32>(), the
\* channels added one after the other from 0.
RECURSIVE I32Sum(_, _, _, _)
I32Sum(buffer, i, block_size, j) ==
    IF j = 0 THEN [overflow |-> FALSE, value |-> 0]
    ELSE LET before == I32Sum(buffer, i, block_size, j - 1)
             sum == I32Add(before.value, buffer[i + block_size * (j - 1)])
         IN  [overflow |-> before.overflow \/ sum.overflow, value |-> sum.value]

\* `let data = if block.channels() != 1 {..} else {block.into_buffer()}`:
\* the outcomes the builds can produce.
DownmixOutcomes(block) ==
    IF block.channels # 1
    THEN LET num_channels == block.channels
             block_size == Len(block.buffer) \div num_channels
             sums == [i \in 1..block_size |->
                         I32Sum(block.buffer, i, block_size, num_channels)]
             data == [i \in 1..block_size |-> I32Div(sums[i].value, num_channels)]
         IN  IF \E i \in 1..block_size : sums[i].overflow
             THEN {[r |-> "Panic", data |-> <<>>], [r |-> "Ok", data |-> data]}
             ELSE {[r |-> "Ok", data |-> data]}
    ELSE {[r |-> "Ok", data |-> block.buffer]}

\* The blocks of c channels of n samples each, c * n <= MaxSamples.
DecodedBlocks ==
    UNION { { [channels |-> cn[1], buffer |-> b] : b \in [1..(cn[1] * cn[2]) -> I32Samples] } :
            cn \in { x \in (1..3) \X (1..MaxSamples) : x[1] * x[2] <= MaxSamples } }

DownmixInit ==
    /\ dmBlock \in DecodedBlocks
    /\ dmOut = [r |-> "none", data |-> <<>>]

\* The WireChunk arm computes `data` from the decoded block.
DownmixBlock(out) ==
    /\ dmOut.r = "none"
    /\ out \in DownmixOutcomes(dmBlock)
    /\ dmOut' = out
    /\ UNCHANGED dmBlock

DownmixNext ==
    \E out \in DownmixOutcomes(dmBlock) : DownmixBlock(out) /\ UNCHANGED downmixOthers

InitDownmix == DownmixInit /\ CodecInit /\ ClientIdle /\ StreamIdle /\ MusicIdle /\ AccessIdle /\ DiscoverIdle /\ LightsIdle /\ MailboxIdle /\ SessionIdle /\ BufferIdle /\ BandIdle

DownmixSpec == InitDownmix /\ [][DownmixNext]_vars

-----------------------------------------------------------------------------
(* Claims about the downmix (DownmixSpec).                                  *)

\* The sum over the channels of sample i, as the sum of the quotients by c
\* and the sum of the remainders, neither of which leaves 32 bits.
RECURSIVE QuotientSum(_, _, _, _, _)
QuotientSum(buffer, i, n, c, j) ==
    IF j = 0 THEN 0
    ELSE I32Div(buffer[i + n * (j - 1)], c) + QuotientSum(buffer, i, n, c, j - 1)

RECURSIVE RemainderSum(_, _, _, _, _)
RemainderSum(buffer, i, n, c, j) ==
    IF j = 0 THEN 0
    ELSE LET x == buffer[i + n * (j - 1)]
         IN  (x - c * I32Div(x, c)) + RemainderSum(buffer, i, n, c, j - 1)

\* (sum over channels j of buffer[i + n*j]) / c of the integers, the
\* quotient rounded towards zero.
ExactMean(buffer, i, n, c) ==
    LET quotients == QuotientSum(buffer, i, n, c, c)
        remainders == RemainderSum(buffer, i, n, c, c)
        floor == quotients + (remainders \div c)
    IN  IF floor < 0 /\ remainders % c # 0 THEN floor + 1 ELSE floor

\* Sample i of the block overflows an i32 while its channels are added.
Overflows(block) ==
    LET n == Len(block.buffer) \div block.channels
    IN  \E i \in 1..n : I32Sum(block.buffer, i, n, block.channels).overflow

\* C27. Downmix: for a block of c > 1 channels of n samples each, stored
\* channel after channel, the frame has exactly n samples and sample i is
\* (sum over channels j of block[i + n*j]) / c, for all 32-bit sample
\* values; a block of one channel is used as it is.
C27_Original ==
    dmOut.r # "none"
      => /\ dmOut.r = "Ok"
         /\ IF dmBlock.channels = 1
            THEN dmOut.data = dmBlock.buffer
            ELSE LET c == dmBlock.channels
                     n == Len(dmBlock.buffer) \div c
                 IN  /\ Len(dmOut.data) = n
                     /\ \A i \in 1..n : dmOut.data[i] = ExactMean(dmBlock.buffer, i, n, c)

-----------------------------------------------------------------------------
(* lights::start (lights.rs 113-179): the blocking task that receives the   *)
(* colour arrays and writes them to the serial port.  A colour of the       *)
(* channel is the tuple (intensity, [r, g, b]); it is the record            *)
(* Color(i, r, g, b) here, so color[i].1[0] is .r, .1[1] is .g and .1[2]    *)
(* is .b.                                                                   *)

\* The most colour arrays the sink receives.
MaxWrites == 2

BUFFER_LEN == 78
NUM_STRIPS == 3
LIGHT_LENGTH_COLORS == 8
LIGHT_LENGTH_BYTES == 26

\* The colours a controller sends.
SinkColors == { Color(0, 0, 0, 0), Color(9, 255, 128, 3), Color(200, 4, 7, 200) }

ColorArrays == [1..NUM_LIGHTS -> SinkColors]

\* As Scale, the channel written as it is.
Scale_full(v) == v

\* `color[i].1[k] / 4` on u8.
Scale(v) == v \div 4

\* The channel k (0, 1, 2) of a colour.
Channel(c, k) == CASE k = 0 -> c.r [] k = 1 -> c.g [] OTHER -> c.b

\* The body of `for i in 0..NUM_STRIPS`: the byte at index n (from 0) of the
\* buffer after the loop.  Every byte of the buffer is assigned: 24 colour
\* bytes and two bytes of 255 for each strip.
FillBuffer(old, color) ==
    [n \in 1..BUFFER_LEN |->
        LET i == (n - 1) \div LIGHT_LENGTH_BYTES
            at == (n - 1) % LIGHT_LENGTH_BYTES
        IN  IF i < NUM_STRIPS /\ at < 3 * LIGHT_LENGTH_COLORS
            THEN Scale(Channel(color[i + 1], at % 3))
            ELSE IF i < NUM_STRIPS /\ at \in {24, 25}
            THEN 255
            ELSE old[n]]

LightsInit ==
    /\ sinkPc = "receiving"
    /\ ledBuffer = [n \in 1..BUFFER_LEN |-> 0]
    /\ lastColor = <<>>
    /\ sinkReceived = 0
    /\ writes = 0
    /\ written = <<>>

\* rx.blocking_recv() yields Some(color): the buffer is filled and handed to
\* port.write, whose error panics the task (`unwrap`).
SinkRecv(color, result) ==
    /\ sinkPc = "receiving"
    /\ sinkReceived < MaxWrites
    /\ sinkReceived' = sinkReceived + 1
    /\ lastColor' = color
    /\ ledBuffer' = FillBuffer(ledBuffer, color)
    /\ written' = ledBuffer'
    /\ writes' = writes + 1
    /\ sinkPc' = IF result = "Ok" THEN "receiving" ELSE "panicked"

\* rx.blocking_recv() yields None: every sender is gone, the task returns
\* Ok(()).
SinkEnd ==
    /\ sinkPc = "receiving"
    /\ sinkPc' = "ended"
    /\ UNCHANGED <<ledBuffer, lastColor, sinkReceived, writes, written>>

LightsNext ==
    \/ \E color \in ColorArrays, result \in {"Ok", "Err"} :
          SinkRecv(color, result) /\ UNCHANGED lightsOthers
    \/ SinkEnd /\ UNCHANGED lightsOthers

InitLights == LightsInit /\ CodecInit /\ ClientIdle /\ StreamIdle /\ MusicIdle /\ AccessIdle /\ DiscoverIdle /\ DownmixIdle /\ MailboxIdle /\ SessionIdle /\ BufferIdle /\ BandIdle

LightsSpec == InitLights /\ [][LightsNext]_vars

-----------------------------------------------------------------------------
(* Claims about the serial sink (LightsSpec).                               *)

\* C28. Serial LED frame: for every colour array received the sink hands one
\* frame of 78 bytes to the port, made of 3 strip records of 26 bytes;
\* record s is 8 repetitions of (R/4, G/4, B/4) of colour s followed by the
\* two bytes 255, 255.
C28_SerialFrame ==
    /\ [](/\ writes = sinkReceived
          /\ sinkReceived > 0
               => /\ Len(written) = 78
                  /\ \A s \in 0..2 :
                        /\ \A j \in 0..7 :
                              /\ written[26 * s + 3 * j + 1] = lastColor[s + 1].r \div 4
                              /\ written[26 * s + 3 * j + 2] = lastColor[s + 1].g \div 4
                              /\ written[26 * s + 3 * j + 3] = lastColor[s + 1].b \div 4
                        /\ written[26 * s + 25] = 255
                        /\ written[26 * s + 26] = 255)
    /\ [][ sinkReceived' # sinkReceived
             => (sinkReceived' = sinkReceived + 1 /\ writes' = writes + 1) ]_vars

\* A second array was received and written: three different colours, one of
\* them with channels that are no multiples of 4.
C28_Witness ==
    /\ sinkReceived = 2 /\ writes = 2
    /\ lastColor = <<Color(9, 255, 128, 3), Color(200, 4, 7, 200), Color(0, 0, 0, 0)>>
    /\ written[1] = 63 /\ written[2] = 32 /\ written[3] = 0
    /\ written[27] = 1 /\ written[28] = 1 /\ written[29] = 50
    /\ written[78] = 255

-----------------------------------------------------------------------------
(* The mailbox of controller/music/mod.rs: `frame`, an                      *)
(* Arc<Mutex<Option<Vec<i32>>>> written by mainloop (285-293) and read by   *)
(* has_new_frame and get_new_frame (143-152).  A frame is known by its      *)
(* number in the order client.next() yields them.                           *)

\* The most frames the client yields.
MaxFrames == 4

NoneSlot == [some |-> FALSE, id |-> 0]

\* As replace, leaving a frame that is still there.
replace_if_empty(s, f) == IF s.some THEN s ELSE [some |-> TRUE, id |-> f]

\* Option::replace: the slot holds the new frame, the old one is dropped.
replace(s, f) == [some |-> TRUE, id |-> f]

\* Option::take on the slot: what is returned and what is left.
get_new_frame(s) == [frame |-> s, left |-> NoneSlot]

MailboxInit ==
    /\ slot = NoneSlot
    /\ lock = "free"
    /\ writerPc = "next"
    /\ outFrame = 0
    /\ nextFrame = 1
    /\ published = 0
    /\ readerPc = "idle"
    /\ readerSaw = FALSE
    /\ takes = <<>>

\* mainloop: `client.next().await` yields Some(frame).
ClientYields ==
    /\ writerPc = "next"
    /\ nextFrame <= MaxFrames
    /\ outFrame' = nextFrame
    /\ nextFrame' = nextFrame + 1
    /\ writerPc' = "lock"
    /\ UNCHANGED <<slot, lock, published, readerPc, readerSaw, takes>>

\* mainloop: `output.lock().await` gets the lock.
WriterLocks ==
    /\ writerPc = "lock"
    /\ lock = "free"
    /\ lock' = "writer"
    /\ writerPc' = "replace"
    /\ UNCHANGED <<slot, outFrame, nextFrame, published, readerPc, readerSaw, takes>>

\* mainloop: `.replace(frame);` and the guard is dropped at the end of the
\* statement.
WriterReplaces ==
    /\ writerPc = "replace"
    /\ slot' = replace(slot, outFrame)
    /\ published' = outFrame
    /\ lock' = "free"
    /\ writerPc' = "next"
    /\ UNCHANGED <<outFrame, nextFrame, readerPc, readerSaw, takes>>

\* The controller: `self.frame.blocking_lock()` of has_new_frame or of
\* get_new_frame gets the lock.
ReaderLocks(op) ==
    /\ readerPc = "idle"
    /\ lock = "free"
    /\ lock' = "reader"
    /\ readerPc' = op
    /\ UNCHANGED <<slot, writerPc, outFrame, nextFrame, published, readerSaw, takes>>

\* has_new_frame: `.is_some()`, and the guard is dropped.
ReaderIsSome ==
    /\ readerPc = "is_some"
    /\ readerSaw' = has_new_frame(slot)
    /\ lock' = "free"
    /\ readerPc' = "idle"
    /\ UNCHANGED <<slot, writerPc, outFrame, nextFrame, published, takes>>

\* get_new_frame: `.take()`, and the guard is dropped.
ReaderTakes ==
    /\ readerPc = "take"
    /\ LET t == get_new_frame(slot)
       IN  /\ takes' = IF t.frame.some THEN Append(takes, t.frame.id) ELSE takes
           /\ slot' = t.left
    /\ lock' = "free"
    /\ readerPc' = "idle"
    /\ UNCHANGED <<writerPc, outFrame, nextFrame, published, readerSaw>>

MailboxNext ==
    \/ ClientYields /\ UNCHANGED mailboxOthers
    \/ WriterLocks /\ UNCHANGED mailboxOthers
    \/ WriterReplaces /\ UNCHANGED mailboxOthers
    \/ \E op \in {"is_some", "take"} : ReaderLocks(op) /\ UNCHANGED mailboxOthers
    \/ ReaderIsSome /\ UNCHANGED mailboxOthers
    \/ ReaderTakes /\ UNCHANGED mailboxOthers

InitMailbox == MailboxInit /\ CodecInit /\ ClientIdle /\ StreamIdle /\ MusicIdle /\ AccessIdle /\ DiscoverIdle /\ DownmixIdle /\ LightsIdle /\ SessionIdle /\ BufferIdle /\ BandIdle

MailboxSpec == InitMailbox /\ [][MailboxNext]_vars

-----------------------------------------------------------------------------
(* Claims about the mailbox (MailboxSpec).                                  *)

\* C29. Single-slot mailbox: a frame in the slot is the one published last;
\* a publish puts its frame into the slot whether the frame before it was
\* taken or not, and the writer that asks for the lock gets it whenever the
\* lock is free, whatever the slot holds; take returns the frame published
\* last if it was not taken yet and empties the slot, so that no frame is
\* returned twice; whoever holds the lock is at its single replace, is_some
\* or take, which it can always do and which gives the lock back, so that
\* the lock is never held at `client.next().await` or `lock().await`.
C29_Mailbox ==
    /\ [](/\ slot.some => (slot.id = published /\ \A n \in 1..Len(takes) : takes[n] < slot.id)
          /\ \A n, m \in 1..Len(takes) : n < m => takes[n] < takes[m]
          /\ lock = "writer" <=> writerPc = "replace"
          /\ lock = "reader" <=> readerPc \in {"is_some", "take"}
          /\ (writerPc = "lock" /\ lock = "free") => ENABLED WriterLocks
          /\ writerPc = "replace" => ENABLED WriterReplaces
          /\ readerPc = "is_some" => ENABLED ReaderIsSome
          /\ readerPc = "take" => ENABLED ReaderTakes)
    /\ [][ published' # published
             => /\ writerPc = "replace"
                /\ published' = outFrame
                /\ slot' = [some |-> TRUE, id |-> outFrame]
                /\ lock' = "free" ]_vars
    /\ [][ takes' # takes
             => /\ readerPc = "take" /\ slot.some
                /\ takes' = Append(takes, published)
                /\ ~slot'.some
                /\ lock' = "free" ]_vars
    /\ [][ (lock # "free" /\ (writerPc' # writerPc \/ readerPc' # readerPc))
             => \/ lock' = "free"
                \/ (lock = "reader" /\ writerPc = "next" /\ writerPc' = "lock" /\ lock' = lock) ]_vars

\* Frame 1 was published and not taken, frame 2 has replaced it and was
\* taken, and the slot is empty again.
C29_Witness ==
    /\ takes = <<2>>
    /\ published = 2
    /\ ~slot.some
    /\ lock = "free"

-----------------------------------------------------------------------------
(* Claims about MusicController::tick (MusicSpec).                          *)

\* The step is a tick of the display loop that invokes the music
\* controller's tick().
MusicTickStep ==
    /\ DisplayTick
    /\ lastTick'.chosen # 0
    /\ controllers[lastTick'.chosen] = "music"

C35_CounterBounded ==
    /\ [](ticks_since_new_frame = USIZE_MAX \/ ticks_since_new_frame \in 0..10)
    /\ [](displayPc = "running")
    /\ [][ (MusicTickStep /\ ~frame.some) => ticks_since_new_frame < 10 ]_vars

\* The counter has reached 10 by a tick that found the mailbox empty, while
\* the network task is connected and may publish.
C35_Witness ==
    /\ ticks_since_new_frame = 10
    /\ ~frame.some
    /\ runPc = "mainloop"
    /\ lastTick.chosen # 0 /\ controllers[lastTick.chosen] = "music"
    /\ lastTick.invoked = {lastTick.chosen}

-----------------------------------------------------------------------------
(* One session of SnapClient (snap/client.rs 66-215): the messages connect  *)
(* sends and the messages next() processes.  The only calls of              *)
(* SnapStream::send are the two of connect (85, 91).                        *)

\* The most frames in the delay queue, and how many tags `recent` keeps.
MaxQueued == 2
RecentLen == 2

\* The tags of the messages of the server.
ServerTags == 1..6

Remember(tags, tag) ==
    LET all == Append(tags, tag)
    IN  IF Len(all) > RecentLen THEN Tail(all) ELSE all

SessionInit ==
    /\ sessPc = "connect"
    /\ sessOpen = FALSE
    /\ hellosSent = 0
    /\ timesSent = 0
    /\ recent = <<>>
    /\ queued = 0

\* SnapStream::connect(addr, instant).await?
SessConnect(ok) ==
    /\ sessPc = "connect"
    /\ sessPc' = IF ok THEN "hello" ELSE "done"
    /\ sessOpen' = ok
    /\ UNCHANGED <<hellosSent, timesSent, recent, queued>>

\* stream.send(hello).await?
SessHello(ok) ==
    /\ sessPc = "hello"
    /\ sessPc' = IF ok THEN "time" ELSE "done"
    /\ hellosSent' = IF ok THEN hellosSent + 1 ELSE hellosSent
    /\ sessOpen' = ok
    /\ UNCHANGED <<timesSent, recent, queued>>

\* stream.send(time).await?, and connect returns the client.
SessTime(ok) ==
    /\ sessPc = "time"
    /\ sessPc' = IF ok THEN "next" ELSE "done"
    /\ timesSent' = IF ok THEN timesSent + 1 ELSE timesSent
    /\ sessOpen' = ok
    /\ UNCHANGED <<hellosSent, recent, queued>>

\* next(): the stream yields a message and process_message handles it; a
\* WireChunk may add a frame to the queue, an error ends the session.  No
\* arm of process_message sends anything.
SessMessage(tag, ok) ==
    /\ sessPc = "next"
    /\ sessOpen
    /\ recent' = Remember(recent, tag)
    /\ IF ok
       THEN /\ queued' = IF tag = 2 /\ queued < MaxQueued THEN queued + 1 ELSE queued
            /\ UNCHANGED <<sessPc, sessOpen>>
       ELSE /\ sessPc' = "done"
            /\ sessOpen' = FALSE
            /\ queued' = 0
    /\ UNCHANGED <<hellosSent, timesSent>>

\* next(): a frame of the queue expires (and is returned or dropped).
SessExpire ==
    /\ sessPc = "next"
    /\ queued > 0
    /\ queued' = queued - 1
    /\ sessPc' = IF ~sessOpen /\ queued' = 0 THEN "done" ELSE "next"
    /\ UNCHANGED <<sessOpen, hellosSent, timesSent, recent>>

\* next(): the stream yields None, the server has closed the connection.
SessStreamEnd ==
    /\ sessPc = "next"
    /\ sessOpen
    /\ sessOpen' = FALSE
    /\ sessPc' = IF queued = 0 THEN "done" ELSE "next"
    /\ UNCHANGED <<hellosSent, timesSent, recent, queued>>

SessionNext ==
    \/ \E ok \in BOOLEAN : SessConnect(ok) /\ UNCHANGED sessionOthers
    \/ \E ok \in BOOLEAN : SessHello(ok) /\ UNCHANGED sessionOthers
    \/ \E ok \in BOOLEAN : SessTime(ok) /\ UNCHANGED sessionOthers
    \/ \E tag \in ServerTags, ok \in BOOLEAN : SessMessage(tag, ok) /\ UNCHANGED sessionOthers
    \/ SessExpire /\ UNCHANGED sessionOthers
    \/ SessStreamEnd /\ UNCHANGED sessionOthers

InitSession == SessionInit /\ CodecInit /\ ClientIdle /\ StreamIdle /\ MusicIdle /\ AccessIdle /\ DiscoverIdle /\ DownmixIdle /\ LightsIdle /\ MailboxIdle /\ BufferIdle /\ BandIdle

\* The client's task is scheduled as long as it has something to do, and so
\* is the server's.
SessionSpec == InitSession /\ [][SessionNext]_vars /\ WF_vars(SessionNext)

-----------------------------------------------------------------------------
(* Claims about the session (SessionSpec).                                  *)

\* C31. After the handshake the client sends Time messages again for as
\* long as the connection is open: once connect has returned, either the
\* stream is closed at some time or a Time message after the initial
\* Time(0) is sent.
C31_Original == (sessPc = "next") ~> (~sessOpen \/ timesSent > 1)

\* What the code does: connect sends one Hello and one Time, and next()
\* sends nothing.
TimeSentOnce ==
    /\ timesSent <= 1 /\ hellosSent <= 1
    /\ sessPc = "next" => (timesSent = 1 /\ hellosSent = 1)

-----------------------------------------------------------------------------
(* Claims about the music task and the display loop together (MusicSpec).    *)

\* run has returned its error after the last failed attempt.
RunGaveUp == runPc = "done" /\ runRet = "Err"

\* C32. Once the music task has terminated after exhausting its connection
\* attempts, no frame is put into the mailbox any more; with the Music
\* controller declared first (the one the display loop polls first), its
\* is_active is false at every tick after the termination (at the first as
\* at the tenth: the sleeps before the last attempts have outlasted the
\* frame in the mailbox and the ten ticks of the window), and with Blank
\* declared behind it, every such tick invokes Blank and forwards its
\* colours.
C32_AfterGivingUp ==
    /\ []((RunGaveUp /\ controllers[1] = "music")
            => (~frame.some /\ ~is_active(frame, ticks_since_new_frame)))
    /\ [][ RunGaveUp => (RunGaveUp' /\ frame' = frame) ]_vars
    /\ [][ (RunGaveUp /\ controllers = <<"music", "blank">> /\ DisplayTick)
             => /\ lastTick'.mask = <<FALSE, TRUE>>
                /\ lastTick'.chosen = 2
                /\ lastTick'.invoked = {2}
                /\ lastTick'.colors = BlankTick ]_vars

\* The music task has given up after a session that had delivered a frame;
\* the window of that frame has run out and Blank has the channel.
C32_Witness ==
    /\ RunGaveUp
    /\ controllers = <<"music", "blank">>
    /\ sinceFrame = 10 /\ ticks_since_new_frame = 10
    /\ lastTick.chosen = 2 /\ lastTick.colors = BlankTick
    /\ sleepTicks = 0

-----------------------------------------------------------------------------
(* The sample buffer of MusicController::process_frame (music/mod.rs        *)
(* 154-168, and the same lines of music.rs 250-264) under frames of any     *)
(* length.  The buffer has BufLen places here, BUFFER_SIZE = 4096 in the    *)
(* code.                                                                    *)

\* The most frames process_frame is given.
MaxPushes == 2

FrameSamples == {1, 2, 3}

\* The frames: up to one sample more than the buffer holds.
PushedFrames == SeqsUpTo(FrameSamples, BufLen + 1)

BufferInit ==
    /\ wbuf = NoSamples
    /\ arrived = <<>>
    /\ lastPushed = <<>>
    /\ pushes = 0
    /\ bufPc = "running"

\* process_frame(frame), as far as the sample buffer goes.
PushFrame(data) ==
    /\ bufPc = "running"
    /\ pushes < MaxPushes
    /\ pushes' = pushes + 1
    /\ lastPushed' = data
    /\ arrived' = arrived \o data
    /\ \E o \in push_outcomes(wbuf, data) :
          /\ wbuf' = o.buf
          /\ bufPc' = IF o.panic THEN "panicked" ELSE "running"

BufferNext == \E data \in PushedFrames : PushFrame(data) /\ UNCHANGED bufferOthers

InitBuffer == BufferInit /\ CodecInit /\ ClientIdle /\ StreamIdle /\ MusicIdle /\ AccessIdle /\ DiscoverIdle /\ DownmixIdle /\ LightsIdle /\ MailboxIdle /\ SessionIdle /\ BandIdle

BufferSpec == InitBuffer /\ [][BufferNext]_vars

-----------------------------------------------------------------------------
(* Claims about the sample buffer (BufferSpec).                             *)

\* The buffer holds the most recent samples that arrived, the newest first,
\* and zeros where fewer than its length have arrived.
HoldsNewest ==
    /\ Len(wbuf) = BufLen
    /\ \A j \in 1..BufLen :
          wbuf[j] = IF j <= Len(arrived) THEN arrived[Len(arrived) + 1 - j] ELSE 0

\* C33. Append-and-slide: after process_frame on a frame of k samples, k no
\* more than the buffer's length, the first k places of the buffer hold the
\* frame's samples in reverse order of arrival (the newest at index 0) and
\* every place j from k on holds what place j - k held before; so after any
\* sequence of such frames the buffer holds the most recent samples, the
\* newest first.
C33_AppendAndSlide ==
    /\ [][ (pushes' # pushes /\ Len(lastPushed') <= BufLen)
             => LET k == Len(lastPushed')
                IN  /\ bufPc' = "running"
                    /\ Len(wbuf') = BufLen
                    /\ \A j \in 0..(k - 1) : wbuf'[j + 1] = lastPushed'[k - j]
                    /\ \A j \in k..(BufLen - 1) : wbuf'[j + 1] = wbuf[j - k + 1] ]_vars
    /\ [](bufPc = "running" => HoldsNewest)

\* The frame <<1>> and then the frame <<2>>: the buffer holds 2, 1.
C33_Witness ==
    /\ arrived = <<1, 2>> /\ lastPushed = <<2>> /\ pushes = 2
    /\ wbuf[1] = 2 /\ wbuf[2] = 1
    /\ bufPc = "running"

\* C37. process_frame accepts a frame of any length: a frame of more samples
\* than the buffer holds does not make it fail, and afterwards the buffer
\* holds the newest samples.
C37_Original == bufPc = "running" /\ HoldsNewest

-----------------------------------------------------------------------------
(* One band of process_frame's loop over spectrum_state (music/mod.rs       *)
(* 188-211).  val and velocity are f64 in the code; the model follows the   *)
(* band as long as they are integers, which f64 holds exactly, and stops    *)
(* following it (bandPc = "inexact") at a square root that is no integer.   *)

GRAVITY == 1

\* The values of a band that the frames give (the average of the band's
\* frequencies times its eq); 0 is silence.
BandInputs == {0, 1, 16, 1024}

\* The integer whose square x is, -1 if there is none.
ExactSqrt(x) ==
    IF \E r \in 0..x : r * r = x THEN CHOOSE r \in 0..x : r * r = x ELSE -1

\* f64::clamp
clamp(v, lo, hi) == IF v < lo THEN lo ELSE IF v > hi THEN hi ELSE v

\* The body of the loop for one band and the value `val` of the frame: what
\* velocity, val and clamped_val are afterwards.
band_step(val, st) ==
    LET fallen == st.velocity - GRAVITY
        velocity == IF val > st.val THEN ExactSqrt(val - st.val) ELSE fallen
        new == st.val + velocity
    IN  [exact |-> ~(val > st.val) \/ ExactSqrt(val - st.val) # -1,
         val |-> new, velocity |-> velocity, clamped_val |-> clamp(new, 0, 255)]

BandInit ==
    /\ bandVal = 0
    /\ bandVelocity = 0
    /\ bandClamped = 0
    /\ lastInput = -1
    /\ bandPc = "exact"

\* process_frame on a frame that gives the band the value `val`.
BandFrame(val) ==
    /\ bandPc = "exact"
    /\ LET o == band_step(val, [val |-> bandVal, velocity |-> bandVelocity])
       IN  IF o.exact
           THEN /\ bandVal' = o.val
                /\ bandVelocity' = o.velocity
                /\ bandClamped' = o.clamped_val
                /\ lastInput' = val
                /\ UNCHANGED bandPc
           ELSE /\ bandPc' = "inexact"
                /\ UNCHANGED <<bandVal, bandVelocity, bandClamped, lastInput>>

BandNext == \E val \in BandInputs : BandFrame(val) /\ UNCHANGED bandOthers

InitBand == BandInit /\ CodecInit /\ ClientIdle /\ StreamIdle /\ MusicIdle /\ AccessIdle /\ DiscoverIdle /\ DownmixIdle /\ LightsIdle /\ MailboxIdle /\ SessionIdle /\ BufferIdle

BandSpec == InitBand /\ [][BandNext]_vars

-----------------------------------------------------------------------------
(* Claims about the bands (BandSpec).                                       *)

\* C34. Gravity decay in silence: on a frame of silence (the band's value
\* is 0) the band's val does not increase, nor does the byte emitted, and
\* the byte is one of 0..255.
C34_Original ==
    /\ [][ (BandFrame(0) /\ bandPc' = "exact")
             => (bandVal' <= bandVal /\ bandClamped' <= bandClamped) ]_vars
    /\ [](bandClamped \in 0..255)

\* The byte emitted is clamped (the part of the claim that holds).
ClampedByte == bandClamped \in 0..255 /\ bandClamped = clamp(bandVal, 0, 255)

=============================================================================
